---- MODULE Spec2Model ----
(***************************************************************************)
(* A model of git-tidy's core (src/tidy/core.py): the Commits query        *)
(* algebra (filter / exclude / group) over lists of Commit objects with    *)
(* lazily resolved tags and tag dates, the loading of the commit schema,   *)
(* the construction of a Commit from a raw log entry (decoding, trailers,  *)
(* description, attribute reads) and the construction of a CommitRange.    *)
(*                                                                         *)
(* A Python str is the sequence of its code points; a Python value is a    *)
(* tagged record, so that ==, isinstance and sorted() can be computed the  *)
(* way Python computes them.                                                *)
(***************************************************************************)
EXTENDS Integers, Sequences, FiniteSets, TLC

(* ------------------------------------------------------------------ *)
(* Bounds of the model                                                  *)
(* ------------------------------------------------------------------ *)

\* Longest commit range (number of Commit objects in CommitRange._commits).
MaxLen == 3

\* The count of describe queries of one commit saturates here.
MaxQueries == 2

(* ------------------------------------------------------------------ *)
(* Python values                                                        *)
(* ------------------------------------------------------------------ *)

PyNone == [kind |-> "none", s |-> <<>>, b |-> FALSE]
PyStr(s) == [kind |-> "str", s |-> s, b |-> FALSE]
PyBool(b) == [kind |-> "bool", s |-> <<>>, b |-> b]
\* A value that is absent (a key missing from a dict, an attribute not set).
Absent == [kind |-> "absent", s |-> <<>>, b |-> FALSE]
\* The outcome of an attribute read that raises AttributeError.
AttrError == [kind |-> "AttributeError", s |-> <<>>, b |-> FALSE]

\* class Tag(collections.UserString): an object whose data is the tag name.
\* A UserString is not an instance of str.
Tag(tag) == [kind |-> "tag", s |-> tag, b |-> FALSE]

IsStringLike(v) == v.kind \in {"str", "tag"}

\* Python's a == b on the values of the model: str and UserString compare
\* by their characters (UserString.__eq__), None equals only None, a bool
\* equals only the same bool.
PyEq(a, b) ==
    \/ IsStringLike(a) /\ IsStringLike(b) /\ a.s = b.s
    \/ a.kind = "bool" /\ b.kind = "bool" /\ a.b = b.b
    \/ a.kind = "none" /\ b.kind = "none"

\* Python's s < t on str: lexicographic on code points.
RECURSIVE StrLess(_, _)
StrLess(s, t) ==
    IF t = <<>> THEN FALSE
    ELSE IF s = <<>> THEN TRUE
    ELSE IF Head(s) # Head(t) THEN Head(s) < Head(t)
    ELSE StrLess(Tail(s), Tail(t))

\* Python's a < b on two keys of the same type (False < True).
PyLess(a, b) ==
    IF a.kind = "bool" THEN (~a.b) /\ b.b
    ELSE StrLess(a.s, b.s)

(* ------------------------------------------------------------------ *)
(* Regular expressions (re.match)                                       *)
(* ------------------------------------------------------------------ *)

\* A pattern is a sequence of tokens: a literal character, "." and ".*".
ReChr(c) == [t |-> "chr", c |-> c]
ReAny == [t |-> "any", c |-> 0]
ReAnyStar == [t |-> "anystar", c |-> 0]

\* re.match(pattern, s) is not None: the pattern matches a prefix of s.
RECURSIVE ReMatch(_, _)
ReMatch(p, s) ==
    IF p = <<>> THEN TRUE
    ELSE LET h == Head(p) IN
        CASE h.t = "chr" ->
                s # <<>> /\ Head(s) = h.c /\ ReMatch(Tail(p), Tail(s))
          [] h.t = "any" ->
                s # <<>> /\ ReMatch(Tail(p), Tail(s))
          [] OTHER ->
                \E k \in 0..Len(s) : ReMatch(Tail(p), SubSeq(s, k + 1, Len(s)))

(* ------------------------------------------------------------------ *)
(* The commits of the repository                                        *)
(* ------------------------------------------------------------------ *)

\* Strings of the model: "a", "b", "ab", "v1", "v2".
str_a == <<97>>
str_b == <<98>>
str_ab == <<97, 98>>
str_v1 == <<118, 49>>
str_v2 == <<118, 50>>

\* The labels of the commit schema the commits were parsed with.
SchemaLabels == {"sha", "summary", "type"}

\* The history of the repository, oldest commit last as `git log` lists it.
\* Each entry is a Commit object as constructed by Commit.__init__:
\* schema_data (the parsed fields; a label may be missing from it),
\* _is_parsed, schema_data.is_valid, and what `git describe <sha> --contains`
\* prints for the commit: "v2~1", "v1^2~1", "" (no tag contains it), "v1"
\* ('~' = 126, '^' = 94).
Repository == <<
    [schema_data |-> [sha |-> PyStr(<<49>>), summary |-> PyStr(str_ab), type |-> PyStr(str_b)],
     is_parsed |-> TRUE, is_valid |-> TRUE, describe |-> <<118, 50, 126, 49>>],
    [schema_data |-> [sha |-> PyStr(<<50>>), summary |-> Absent, type |-> Absent],
     is_parsed |-> FALSE, is_valid |-> FALSE, describe |-> <<118, 49, 94, 50, 126, 49>>],
    [schema_data |-> [sha |-> PyStr(<<51>>), summary |-> PyStr(str_a), type |-> PyStr(str_a)],
     is_parsed |-> TRUE, is_valid |-> TRUE, describe |-> <<>>],
    [schema_data |-> [sha |-> PyStr(<<52>>), summary |-> PyStr(str_b), type |-> PyStr(str_ab)],
     is_parsed |-> TRUE, is_valid |-> TRUE, describe |-> <<118, 49>>]
>>

CommitIds == DOMAIN Repository

(* ------------------------------------------------------------------ *)
(* Tag                                                                  *)
(* ------------------------------------------------------------------ *)

\* str.replace(old, new) for one-character old and new.
RECURSIVE StrReplace(_, _, _)
StrReplace(s, old, new) ==
    IF s = <<>> THEN <<>>
    ELSE <<IF Head(s) = old THEN new ELSE Head(s)>> \o StrReplace(Tail(s), old, new)

\* s.split(sep)[0]: the characters before the first sep.
RECURSIVE SplitFirst(_, _)
SplitFirst(s, sep) ==
    IF s = <<>> \/ Head(s) = sep THEN <<>>
    ELSE <<Head(s)>> \o SplitFirst(Tail(s), sep)

\* Tag.from_sha: the tag named by the describe output, None when it is empty.
from_sha(c) ==
    LET rev == StrReplace(StrReplace(Repository[c].describe, 126, 58), 94, 58)
    IN  IF rev # <<>> THEN Tag(SplitFirst(rev, 58)) ELSE PyNone

(* ------------------------------------------------------------------ *)
(* State                                                                *)
(* ------------------------------------------------------------------ *)

VARIABLES
    lists,      \* the list objects: lists[0] is CommitRange._commits, the others
                \* are the _commits lists of the Commits objects returned so far
    objs,       \* per Commit object: whether _tag is set, its value, and the
                \* number of describe queries issued for the commit
    result,     \* what the last operation returned
    last,       \* the last operation and its arguments
    user_file,  \* the user's commit.yaml: whether it can be read, its entries
    full,       \* the `full` argument of _load_commit_schema
    loaded,     \* what _load_commit_schema returned or raised
    dates,      \* per Commit object, the Tag object in its _tag: whether _date
                \* is set, its value, the number of date queries issued for it
                \* and whether the last read of its date raised
    msg,        \* the raw log entry given to Commit.__init__
    commit,     \* the Commit object it constructed, or what it raised
    read,       \* the last attribute read on that Commit and what it gave
    attr_in,    \* the key and the value given to _format_commit_attr
    attr_out,   \* what _format_commit_attr returned
    env,        \* what CommitRange.__init__ is given and finds: the range
                \* argument, the git version, the pull requests of the branch,
                \* whether the fetch succeeds, the entries of the log
    calls,      \* the external commands CommitRange.__init__ has issued
    built,      \* what CommitRange.__init__ returned or raised
    repo,       \* the git repository lint, commit and squash work on: the
                \* commits of the branch since the common ancestor with
                \* ref, the index, ORIG_HEAD
    run,        \* the last command: its arguments, the external steps it
                \* took, what it returned or raised
    comments,   \* the comments of the pull request on Github
    posted      \* the last github.comment call: its message, the requests
                \* it made, what it raised

query_vars == <<lists, objs, result, last>>
schema_vars == <<user_file, full, loaded>>
parse_vars == <<msg, commit, read>>
format_vars == <<attr_in, attr_out>>
range_vars == <<env, calls, built>>
work_vars == <<repo, run>>
github_vars == <<comments, posted>>
vars == <<lists, objs, result, last, user_file, full, loaded, dates,
          msg, commit, read, attr_in, attr_out, env, calls, built,
          repo, run, comments, posted>>

\* List objects: the range, a receiver that is not the range, and at most
\* one list per element of the receiver (the groups of a group call).
ListIds == 0..(MaxLen + 1)

Range(xs) == {xs[i] : i \in DOMAIN xs}

Min(a, b) == IF a < b THEN a ELSE b

(* ------------------------------------------------------------------ *)
(* Commit                                                               *)
(* ------------------------------------------------------------------ *)

\* A Commit.tag that queries on every read (no hasattr check).
tag_always_queries(c, o) ==
    [has_tag |-> TRUE, _tag |-> from_sha(c), queries |-> Min(o.queries + 1, MaxQueries)]

\* A Commit.tag that keeps a resolved tag but not a null result.
tag_forgets_none(c, o) ==
    IF ~o.has_tag
    THEN [has_tag |-> from_sha(c) # PyNone, _tag |-> from_sha(c),
          queries |-> Min(o.queries + 1, MaxQueries)]
    ELSE o

\* Commit.tag: the object after the property was read. The tag is resolved
\* with one describe query when _tag is not set yet, and kept in _tag.
tag(c, o) ==
    IF ~o.has_tag
    THEN [has_tag |-> TRUE, _tag |-> from_sha(c),
          queries |-> Min(o.queries + 1, MaxQueries)]
    ELSE o

\* Commit.__getattribute__: the value getattr(commit, attr) returns for the
\* commit c in object state o.
getattribute(c, o, attr) ==
    IF attr = "is_parsed" THEN PyBool(Repository[c].is_parsed)
    ELSE IF attr = "is_valid" THEN PyBool(Repository[c].is_valid)
    ELSE IF attr = "tag" THEN tag(c, o)._tag
    ELSE IF attr \in DOMAIN Repository[c].schema_data
            /\ Repository[c].schema_data[attr] # Absent
         THEN Repository[c].schema_data[attr]
    ELSE IF attr \in SchemaLabels THEN PyNone
    ELSE AttrError

\* The Commit object after getattr(commit, attr) was evaluated n times.
RECURSIVE getattr_effect(_, _, _, _)
getattr_effect(c, o, attr, n) ==
    IF n = 0 THEN o
    ELSE getattr_effect(c, IF attr = "tag" THEN tag(c, o) ELSE o, attr, n - 1)

(* ------------------------------------------------------------------ *)
(* Commits: filter, exclude, group                                      *)
(* ------------------------------------------------------------------ *)

\* An _equals that matches the pattern against any string-like attribute.
_equals_matches_userstring(a, b, match) ==
    IF match
    THEN (IF IsStringLike(a) THEN ReMatch(b, a.s) ELSE FALSE)
    ELSE PyEq(a, b)

\* _equals(a, b, match): b is a pattern when match is true.
_equals(a, b, match) ==
    IF match
    THEN (IF a.kind = "str" THEN ReMatch(b, a.s) ELSE FALSE)
    ELSE PyEq(a, b)

\* Whether getattr(commit, attr) raises for some commit of the list.
raises(xs, os, attr) ==
    \E i \in DOMAIN xs : getattribute(xs[i], os[xs[i]], attr) = AttrError

\* The list comprehension of Commits.filter.
filter(xs, os, attr, value, match) ==
    SelectSeq(xs, LAMBDA c : _equals(getattribute(c, os[c], attr), value, match))

\* An exclude that also drops the commits whose attribute is None.
exclude_drops_none(xs, os, attr, value, match) ==
    SelectSeq(xs, LAMBDA c :
        /\ getattribute(c, os[c], attr) # PyNone
        /\ ~_equals(getattribute(c, os[c], attr), value, match))

\* The list comprehension of Commits.exclude.
exclude(xs, os, attr, value, match) ==
    SelectSeq(xs, LAMBDA c : ~_equals(getattribute(c, os[c], attr), value, match))

\* x in keys, for a Python list keys.
PyIn(x, keys) == \E i \in DOMAIN keys : PyEq(keys[i], x)

\* Keys that move to the end when they are seen again.
RECURSIVE OrderedDictKeys_move_to_end(_, _)
OrderedDictKeys_move_to_end(vals, acc) ==
    IF vals = <<>> THEN acc
    ELSE OrderedDictKeys_move_to_end(
             Tail(vals),
             Append(SelectSeq(acc, LAMBDA k : ~PyEq(k, Head(vals))), Head(vals)))

\* list(collections.OrderedDict((v, True) for v in vals).keys()): the
\* distinct values in the order of their first occurrence.
RECURSIVE OrderedDictKeys(_, _)
OrderedDictKeys(vals, acc) ==
    IF vals = <<>> THEN acc
    ELSE OrderedDictKeys(Tail(vals),
                         IF PyIn(Head(vals), acc) THEN acc ELSE Append(acc, Head(vals)))

\* A sort step that ignores reverse.
RECURSIVE insert_sorted_ascending(_, _, _)
insert_sorted_ascending(ks, k, reverse) ==
    IF ks = <<>> THEN <<k>>
    ELSE IF PyLess(k, Head(ks))
         THEN <<k>> \o ks
         ELSE <<Head(ks)>> \o insert_sorted_ascending(Tail(ks), k, reverse)

\* One step of sorted(): k inserted after the elements that do not come
\* after it (the sort is stable).
RECURSIVE insert_sorted(_, _, _)
insert_sorted(ks, k, reverse) ==
    IF ks = <<>> THEN <<k>>
    ELSE IF (IF reverse THEN PyLess(Head(ks), k) ELSE PyLess(k, Head(ks)))
         THEN <<k>> \o ks
         ELSE <<Head(ks)>> \o insert_sorted(Tail(ks), k, reverse)

\* sorted(ks, reverse=reverse)
RECURSIVE sorted(_, _, _)
sorted(ks, reverse, acc) ==
    IF ks = <<>> THEN acc
    ELSE sorted(Tail(ks), reverse, insert_sorted(acc, Head(ks), reverse))

\* keys.remove(None)
list_remove_none(keys) == SelectSeq(keys, LAMBDA k : k.kind # "none")

\* The natural ordering of the keys: the values of the attribute in the
\* order of their first occurrence.
natural_keys(xs, os, attr) ==
    OrderedDictKeys([i \in DOMAIN xs |-> getattribute(xs[i], os[xs[i]], attr)], <<>>)

\* A re-sort in which ascending_keys takes precedence: the keys are sorted
\* in decreasing order only when ascending_keys is not set.
resort_keys_ascending_first(keys, ascending_keys, descending_keys) ==
    IF ascending_keys \/ descending_keys
    THEN LET sorted_keys == sorted(list_remove_none(keys), ~ascending_keys, <<>>)
         IN  IF PyIn(PyNone, keys) THEN Append(sorted_keys, PyNone) ELSE sorted_keys
    ELSE keys

\* "Re-sort the keys": the keys that are not None sorted, None appended.
resort_keys(keys, ascending_keys, descending_keys) ==
    IF ascending_keys \/ descending_keys
    THEN LET sorted_keys == sorted(list_remove_none(keys), descending_keys, <<>>)
         IN  IF PyIn(PyNone, keys) THEN Append(sorted_keys, PyNone) ELSE sorted_keys
    ELSE keys

\* A relocation that removes the None key and inserts it only at the front.
relocate_none_key_loses_last(keys, none_key_first, none_key_last) ==
    IF (none_key_first \/ none_key_last) /\ PyIn(PyNone, keys)
    THEN LET removed == list_remove_none(keys)
         IN  IF none_key_first THEN <<PyNone>> \o removed ELSE removed
    ELSE keys

\* A relocation whose insert index tests none_key_last instead.
relocate_none_key_last_wins(keys, none_key_first, none_key_last) ==
    IF (none_key_first \/ none_key_last) /\ PyIn(PyNone, keys)
    THEN LET removed == list_remove_none(keys)
         IN  IF none_key_last THEN Append(removed, PyNone) ELSE <<PyNone>> \o removed
    ELSE keys

\* "Change the ordering of the None key": keys.remove(None), then
\* keys.insert(0 if none_key_first else len(keys), None).
relocate_none_key(keys, none_key_first, none_key_last) ==
    IF (none_key_first \/ none_key_last) /\ PyIn(PyNone, keys)
    THEN LET removed == list_remove_none(keys)
         IN  IF none_key_first THEN <<PyNone>> \o removed ELSE Append(removed, PyNone)
    ELSE keys

\* The ordering of the keys computed by Commits.group. When the keys are
\* sorted and no none-key flag is given, none_key_last defaults to true.
group_keys(xs, os, attr, ascending_keys, descending_keys, none_key_first, none_key_last) ==
    LET none_last == IF (ascending_keys \/ descending_keys)
                        /\ ~(none_key_first \/ none_key_last)
                     THEN TRUE ELSE none_key_last
    IN  relocate_none_key(
            resort_keys(natural_keys(xs, os, attr), ascending_keys, descending_keys),
            none_key_first, none_last)

\* A result stored in the receiver's own list.
NewList_in_place(self, k) == self

\* Commits(...): the list object a new Commits wraps, the k-th allocated by
\* a call on the receiver self (a list that is neither the range nor self).
NewList(self, k) ==
    LET free == ListIds \ {0, self}
    IN  CHOOSE l \in free : Cardinality({m \in free : m < l}) = k - 1

(* ------------------------------------------------------------------ *)
(* Inputs                                                               *)
(* ------------------------------------------------------------------ *)

\* The attribute names the operations are called with; "bogus" is neither
\* an attribute of Commit nor a label of the schema.
QueryAttrs == {"type", "is_valid", "tag", "bogus"}

\* The values filter and exclude are called with when match is false.
QueryValues == {PyNone, PyStr(str_a), PyStr(str_v1), PyBool(TRUE)}

\* The patterns they are called with when match is true: "b" and ".".
QueryPatterns == {<<ReChr(98)>>, <<ReAny>>}

\* The ranges: `git log <range>` lists a slice of the history.
Ranges ==
    {[k \in 1..n |-> first + k - 1] :
        <<first, n>> \in {fn \in CommitIds \X (0..MaxLen) :
                            fn[1] + fn[2] - 1 <= Len(Repository)}}

NoResult == [kind |-> "none", ids |-> <<>>, keys |-> <<>>]

NoCall == [op |-> "none", self |-> 0, attr |-> "", value |-> PyNone, pattern |-> <<>>,
           match |-> FALSE, ascending_keys |-> FALSE, descending_keys |-> FALSE,
           none_key_first |-> FALSE, none_key_last |-> FALSE]

\* The collections an operation can be called on. A session is a sequence
\* of calls on the range, ended by at most one call chained on a collection
\* the last call on the range returned: cr.filter(..).filter(..),
\* cr.group(..)[k].group(..).
Receivers == IF last.self = 0 THEN {0} \cup Range(result.ids) ELSE {}

\* No schema is being loaded.
SchemaIdle ==
    /\ user_file = [readable |-> FALSE, entries |-> <<>>]
    /\ full = TRUE
    /\ loaded = [status |-> "none", error |-> "", schema |-> <<>>]

\* No date of a tag was read.
NoDate == [has_date |-> FALSE, _date |-> PyNone, queries |-> 0, raised |-> FALSE]
DatesIdle == dates = [c \in CommitIds |-> NoDate]

\* No Commit is being constructed from a raw entry.
ParseIdle ==
    /\ msg = <<>>
    /\ commit = [status |-> "none"]
    /\ read = [attr |-> <<>>, value |-> Absent]

\* No attribute is being formatted.
FormatIdle ==
    /\ attr_in = [key |-> <<>>, value |-> <<>>]
    /\ attr_out = [done |-> FALSE, value |-> <<>>]

\* No CommitRange is being constructed.
RangeIdle ==
    /\ env = <<>>
    /\ calls = <<>>
    /\ built = [status |-> "none", commits |-> <<>>]

\* No command was run: the repository has no commit since the common
\* ancestor (log: the entries of `git log ref..`; changed: whether these
\* commits change the tree of the common ancestor), nothing staged and no
\* ORIG_HEAD.
NoRepo == [log |-> <<>>, changed |-> FALSE, staged |-> FALSE,
           orig |-> [set |-> FALSE, log |-> <<>>, changed |-> FALSE]]
NoRun == [cmd |-> "none", no_verify |-> FALSE, allow_empty |-> FALSE, any |-> FALSE,
          hook |-> "none", steps |-> <<>>, raised |-> "", returncode |-> 0,
          passed |-> FALSE, commits |-> <<>>, defaults |-> <<>>,
          entry |-> <<>>, got |-> <<>>, before |-> NoRepo]
WorkIdle ==
    /\ repo = NoRepo
    /\ run = NoRun

\* No comment was posted.
NoPost == [status |-> "none", message |-> <<>>, requests |-> <<>>,
           before |-> <<>>, returned |-> 0, latest |-> <<>>]
GithubIdle ==
    /\ comments = <<>>
    /\ posted = NoPost

\* A range was constructed and nothing was called on it yet.
Init ==
    /\ \E xs \in Ranges : lists = [l \in ListIds |-> IF l = 0 THEN xs ELSE <<>>]
    /\ objs = [c \in CommitIds |-> [has_tag |-> FALSE, _tag |-> PyNone, queries |-> 0]]
    /\ result = NoResult
    /\ last = NoCall
    /\ SchemaIdle
    /\ DatesIdle
    /\ WorkIdle /\ GithubIdle
    /\ ParseIdle /\ FormatIdle /\ RangeIdle

(* ------------------------------------------------------------------ *)
(* Operations                                                           *)
(* ------------------------------------------------------------------ *)

\* The list objects after a call on self that returned the lists news
\* (list id -> contents): the range and the receiver stay, the collections
\* of earlier results are dropped.
Heap(self, news) ==
    [l \in ListIds |->
        IF l \in DOMAIN news THEN news[l]
        ELSE IF l \in {0, self} THEN lists[l]
        ELSE <<>>]

\* The Commit objects after getattr(commit, attr) was evaluated n times on
\* each commit of xs.
Touched(xs, attr, n) ==
    [c \in CommitIds |->
        IF c \in Range(xs) THEN getattr_effect(c, objs[c], attr, n) ELSE objs[c]]

\* self.filter(attr, value, match) / self.exclude(attr, value, match)
Select(op, self, attr, value, pattern, match) ==
    LET xs == lists[self]
        b == IF match THEN pattern ELSE value
        new == NewList(self, 1)
        out == IF op = "filter" THEN filter(xs, objs, attr, b, match)
               ELSE exclude(xs, objs, attr, b, match)
    IN  /\ UNCHANGED <<schema_vars, dates, parse_vars, format_vars, range_vars,
                       work_vars, github_vars>>
        /\ last' = [NoCall EXCEPT !.op = op, !.self = self, !.attr = attr,
                                  !.value = value, !.pattern = pattern, !.match = match]
        /\ IF raises(xs, objs, attr)
           THEN /\ result' = [kind |-> "AttributeError", ids |-> <<>>, keys |-> <<>>]
                /\ lists' = Heap(self, <<>>)
                /\ objs' = objs
           ELSE /\ result' = [kind |-> "Commits", ids |-> <<new>>, keys |-> <<>>]
                /\ lists' = Heap(self, new :> out)
                /\ objs' = Touched(xs, attr, 1)

Filter ==
    \E self \in Receivers, attr \in QueryAttrs :
        \/ \E value \in QueryValues : Select("filter", self, attr, value, <<>>, FALSE)
        \/ \E pattern \in QueryPatterns : Select("filter", self, attr, PyNone, pattern, TRUE)

Exclude ==
    \E self \in Receivers, attr \in QueryAttrs :
        \/ \E value \in QueryValues : Select("exclude", self, attr, value, <<>>, FALSE)
        \/ \E pattern \in QueryPatterns : Select("exclude", self, attr, PyNone, pattern, TRUE)

\* self.group(attr, ascending_keys, descending_keys, none_key_first, none_key_last)
GroupCall(self, attr, ascending_keys, descending_keys, none_key_first, none_key_last) ==
        LET xs == lists[self]
            keys == group_keys(xs, objs, attr, ascending_keys, descending_keys,
                               none_key_first, none_key_last)
            \* the objects when the keys have been read, before the filters
            os == Touched(xs, attr, 1)
            news == [k \in DOMAIN keys |-> NewList(self, k)]
        IN  /\ UNCHANGED <<schema_vars, dates, parse_vars, format_vars, range_vars,
                           work_vars, github_vars>>
            /\ last' = [NoCall EXCEPT !.op = "group", !.self = self, !.attr = attr,
                                      !.ascending_keys = ascending_keys,
                                      !.descending_keys = descending_keys,
                                      !.none_key_first = none_key_first,
                                      !.none_key_last = none_key_last]
            /\ IF raises(xs, objs, attr)
               THEN /\ result' = [kind |-> "AttributeError", ids |-> <<>>, keys |-> <<>>]
                    /\ lists' = Heap(self, <<>>)
                    /\ objs' = objs
               ELSE /\ result' = [kind |-> "OrderedDict", ids |-> news, keys |-> keys]
                    /\ lists' = Heap(self,
                           [l \in Range(news) |->
                               LET k == CHOOSE k \in DOMAIN keys : news[k] = l
                               IN  filter(xs, os, attr, keys[k], FALSE)])
                    /\ objs' = Touched(xs, attr, 1 + Len(keys))

Group ==
    \E self \in Receivers, attr \in QueryAttrs,
       ascending_keys \in BOOLEAN, descending_keys \in BOOLEAN,
       none_key_first \in BOOLEAN, none_key_last \in BOOLEAN :
        GroupCall(self, attr, ascending_keys, descending_keys,
                  none_key_first, none_key_last)

Next == Filter \/ Exclude \/ Group

Spec == Init /\ [][Next]_vars

(* ------------------------------------------------------------------ *)
(* Tags and their dates, read on the commits of a range                 *)
(* ------------------------------------------------------------------ *)

\* What `git log -1 --format=%ad <tag>` can do: its exit status and what it
\* prints ("2020", "x", nothing).
DateQueries ==
    {[exit |-> 0, stdout |-> <<50, 48, 50, 48>>],
     [exit |-> 0, stdout |-> <<120>>],
     [exit |-> 0, stdout |-> <<>>],
     [exit |-> 128, stdout |-> <<>>]}

\* A datetime, kept as the text it was parsed from.
DateTime(s) == [kind |-> "datetime", s |-> s, b |-> FALSE]

\* dateutil.parser.parse(s): a datetime when s holds a date (here: digits),
\* ParserError otherwise, the empty string included.
dateutil_parse(s) ==
    IF s # <<>> /\ \A i \in DOMAIN s : s[i] \in 48..57
    THEN [raises |-> "", value |-> DateTime(s)]
    ELSE [raises |-> "ParserError", value |-> PyNone]

\* utils.shell_stdout(cmd) with check=True: CalledProcessError when the
\* command exits with a status other than 0, its output otherwise.
shell_stdout(q) ==
    IF q.exit # 0 THEN [raises |-> "CalledProcessError", stdout |-> <<>>]
    ELSE [raises |-> "", stdout |-> q.stdout]

\* Tag.date: the Tag object d after the property was read, when the date
\* query, if one is issued, does q. Only ParserError is caught.
date(d, q) ==
    IF ~d.has_date
    THEN LET out == shell_stdout(q)
             parsed == dateutil_parse(out.stdout)
             n == Min(d.queries + 1, MaxQueries)
         IN  IF out.raises # ""
             THEN [has_date |-> FALSE, _date |-> PyNone, queries |-> n, raised |-> TRUE]
             ELSE IF parsed.raises # ""
             THEN [has_date |-> TRUE, _date |-> PyNone, queries |-> n, raised |-> FALSE]
             ELSE [has_date |-> TRUE, _date |-> parsed.value, queries |-> n,
                   raised |-> FALSE]
    ELSE [d EXCEPT !.raised = FALSE]

\* One Tag object per tag name: the commits that resolve to the tag of the
\* commit c all hold the same object.
tag_object_holders_by_name(c) == {d \in CommitIds : from_sha(d) = from_sha(c)}

\* The commits whose _tag holds the Tag object that commit.tag returns for
\* the commit c: Commit.tag calls Tag.from_sha for its own commit, and
\* from_sha constructs a new Tag at each call, so c alone holds it.
tag_object_holders(c) == {c}

\* commit.tag, read on a commit of the range.
ReadTag ==
    \E c \in Range(lists[0]) :
        /\ objs' = [objs EXCEPT ![c] = tag(c, objs[c])]
        /\ UNCHANGED <<lists, result, last, dates>>
        /\ UNCHANGED <<schema_vars, parse_vars, format_vars, range_vars,
                       work_vars, github_vars>>

\* commit.tag.date, read on a commit whose tag is resolved and not None.
ReadDate ==
    \E c \in Range(lists[0]), q \in DateQueries :
        /\ objs[c].has_tag
        /\ objs[c]._tag.kind = "tag"
        /\ dates' = [d \in CommitIds |->
                         IF d \in tag_object_holders(c) THEN date(dates[c], q)
                         ELSE dates[d]]
        /\ UNCHANGED query_vars
        /\ UNCHANGED <<schema_vars, parse_vars, format_vars, range_vars,
                       work_vars, github_vars>>

\* The values the range is filtered by on `tag`.
TagValues == {PyNone, PyStr(str_v1)}

FilterTag == \E value \in TagValues : Select("filter", 0, "tag", value, <<>>, FALSE)

ExcludeTag == \E value \in TagValues : Select("exclude", 0, "tag", value, <<>>, FALSE)

GroupTag == GroupCall(0, "tag", FALSE, FALSE, FALSE, FALSE)

TagNext == ReadTag \/ ReadDate \/ FilterTag \/ ExcludeTag \/ GroupTag

TagSpec == Init /\ [][TagNext]_vars

(* ------------------------------------------------------------------ *)
(* Loading the commit schema                                            *)
(* ------------------------------------------------------------------ *)

\* Most entries of the user's commit.yaml.
MaxUserFields == 3

\* An entry of a schema: whether it has the key 'label', the label, and
\* whether entry.get('multiline') is true.
Entry(label, multiline) == [has_label |-> TRUE, label |-> label, multiline |-> multiline]
EntryWithoutLabel(multiline) == [has_label |-> FALSE, label |-> "", multiline |-> multiline]

\* default_schema, for full = False and with the entries added for full.
default_schema(is_full) ==
    <<Entry("summary", FALSE), Entry("description", TRUE)>>
    \o (IF is_full
        THEN <<Entry("sha", FALSE), Entry("author_name", FALSE),
               Entry("author_email", FALSE), Entry("author_date", FALSE),
               Entry("committer_name", FALSE), Entry("committer_email", FALSE),
               Entry("committer_date", FALSE)>>
        ELSE <<>>)

\* The entries a user file is made of.
UserEntries ==
    {Entry(l, m) : l \in {"summary", "description", "type", "sha"}, m \in BOOLEAN}
    \cup {EntryWithoutLabel(m) : m \in BOOLEAN}

UserFiles ==
    {[readable |-> FALSE, entries |-> <<>>]}
    \cup {[readable |-> TRUE, entries |-> es] :
             es \in UNION {[1..n -> UserEntries] : n \in 0..MaxUserFields}}

\* yaml.safe_load of the user file, [] when the file cannot be opened.
load_user_schema(file) == IF file.readable THEN file.entries ELSE <<>>

\* A validation that allows multiline on no user entry at all.
RECURSIVE schema_error_any_multiline(_)
schema_error_any_multiline(user_schema) ==
    IF user_schema = <<>> THEN ""
    ELSE IF ~Head(user_schema).has_label THEN "Entry in schema does not have label"
    ELSE IF Head(user_schema).multiline THEN "Invalid schema for entry with label"
    ELSE schema_error_any_multiline(Tail(user_schema))

\* The validation loop over the user entries: the message of the
\* SchemaError raised for the first bad entry, "" when none is raised.
RECURSIVE schema_error(_)
schema_error(user_schema) ==
    IF user_schema = <<>> THEN ""
    ELSE IF ~Head(user_schema).has_label THEN "Entry in schema does not have label"
    ELSE IF Head(user_schema).multiline /\ Head(user_schema).label # "description"
         THEN "Invalid schema for entry with label"
    ELSE schema_error(Tail(user_schema))

\* A merge that puts a user entry at the place of the default it overrides.
merge_schema_in_place(defaults, user_schema) ==
    LET override(d) ==
            IF \E i \in DOMAIN user_schema : user_schema[i].label = d.label
            THEN user_schema[CHOOSE i \in DOMAIN user_schema :
                                /\ user_schema[i].label = d.label
                                /\ \A j \in 1..(i - 1) : user_schema[j].label # d.label]
            ELSE d
    IN  [i \in DOMAIN defaults |-> override(defaults[i])]
        \o SelectSeq(user_schema,
                     LAMBDA e : \A i \in DOMAIN defaults : defaults[i].label # e.label)

\* A merge that puts the user entries before the defaults that are kept.
merge_schema_user_first(defaults, user_schema) ==
    LET user_labels == {user_schema[i].label : i \in DOMAIN user_schema}
    IN  user_schema \o SelectSeq(defaults, LAMBDA e : e.label \notin user_labels)

\* The merge: the defaults whose label is not in user_labels, then user_schema.
merge_schema(defaults, user_schema) ==
    LET user_labels == {user_schema[i].label : i \in DOMAIN user_schema}
    IN  SelectSeq(defaults, LAMBDA e : e.label \notin user_labels) \o user_schema

SchemaInit ==
    /\ lists = [l \in ListIds |-> <<>>]
    /\ objs = [c \in CommitIds |-> [has_tag |-> FALSE, _tag |-> PyNone, queries |-> 0]]
    /\ result = NoResult
    /\ last = NoCall
    /\ user_file \in UserFiles
    /\ full \in BOOLEAN
    /\ loaded = [status |-> "none", error |-> "", schema |-> <<>>]
    /\ DatesIdle
    /\ WorkIdle /\ GithubIdle
    /\ ParseIdle /\ FormatIdle /\ RangeIdle

\* _load_commit_schema(path, full)
_load_commit_schema ==
    /\ loaded.status = "none"
    /\ LET user_schema == load_user_schema(user_file)
           error == schema_error(user_schema)
       IN  loaded' =
               IF error # ""
               THEN [status |-> "SchemaError", error |-> error, schema |-> <<>>]
               ELSE [status |-> "Schema", error |-> "",
                     schema |-> merge_schema(default_schema(full), user_schema)]
    /\ UNCHANGED <<user_file, full>>
    /\ UNCHANGED <<query_vars, dates, parse_vars, format_vars, range_vars,
                   work_vars, github_vars>>

SchemaNext == _load_commit_schema

SchemaSpec == SchemaInit /\ [][SchemaNext]_vars

(* ------------------------------------------------------------------ *)
(* Strings and regular expressions of the parser                        *)
(* ------------------------------------------------------------------ *)

\* Character classes: [A-Z], \w, \s and [a-fA-F\d] on ASCII.
Upper == 65..90
Word == (48..57) \cup (65..90) \cup {95} \cup (97..122)
Space == {9, 10, 11, 12, 13, 32}
Hex == (48..57) \cup (65..70) \cup (97..102)

\* str.strip()
RECURSIVE lstrip(_)
lstrip(s) == IF s # <<>> /\ Head(s) \in Space THEN lstrip(Tail(s)) ELSE s

RECURSIVE rstrip(_)
rstrip(s) ==
    IF s # <<>> /\ s[Len(s)] \in Space THEN rstrip(SubSeq(s, 1, Len(s) - 1)) ELSE s

strip(s) == rstrip(lstrip(s))

\* str.lower()
lower(s) == [i \in DOMAIN s |-> IF s[i] \in Upper THEN s[i] + 32 ELSE s[i]]

\* The nodes of a regular expression: a character of a set, a character
\* not of a set, a sequence, an alternative, r*, r+, ^ and $.
RxSet(cs) == [t |-> "set", cs |-> cs, rs |-> <<>>]
RxNot(cs) == [t |-> "not", cs |-> cs, rs |-> <<>>]
RxSeq(rs) == [t |-> "seq", cs |-> {}, rs |-> rs]
RxAlt(rs) == [t |-> "alt", cs |-> {}, rs |-> rs]
RxStar(r) == [t |-> "star", cs |-> {}, rs |-> <<r>>]
RxPlus(r) == [t |-> "plus", cs |-> {}, rs |-> <<r>>]
RxBol == [t |-> "bol", cs |-> {}, rs |-> <<>>]
RxEol == [t |-> "eol", cs |-> {}, rs |-> <<>>]

\* The literal text cs as a regular expression.
RxText(cs) == RxSeq([i \in DOMAIN cs |-> RxSet({cs[i]})])

\* The positions of s at which a match of r that starts at position i can
\* end (position i is before s[i]). Without re.MULTILINE ^ matches at the
\* start of s only and $ at its end or before a newline that ends it.
RECURSIVE RxEnds(_, _, _)
RECURSIVE RxSeqEnds(_, _, _)
RECURSIVE RxStarEnds(_, _, _, _)
RxEnds(r, s, i) ==
    CASE r.t = "set" -> IF i <= Len(s) /\ s[i] \in r.cs THEN {i + 1} ELSE {}
      [] r.t = "not" -> IF i <= Len(s) /\ s[i] \notin r.cs THEN {i + 1} ELSE {}
      [] r.t = "bol" -> IF i = 1 THEN {i} ELSE {}
      [] r.t = "eol" ->
            IF i = Len(s) + 1 \/ (i = Len(s) /\ s[i] = 10) THEN {i} ELSE {}
      [] r.t = "seq" -> RxSeqEnds(r.rs, s, {i})
      [] r.t = "alt" -> UNION {RxEnds(r.rs[k], s, i) : k \in DOMAIN r.rs}
      [] r.t = "star" -> RxStarEnds(r.rs[1], s, {i}, {i})
      [] OTHER -> RxStarEnds(r.rs[1], s, RxEnds(r.rs[1], s, i), RxEnds(r.rs[1], s, i))

RxSeqEnds(rs, s, from) ==
    IF rs = <<>> \/ from = {} THEN from
    ELSE RxSeqEnds(Tail(rs), s, UNION {RxEnds(Head(rs), s, i) : i \in from})

RxStarEnds(r, s, done, frontier) ==
    IF frontier = {} THEN done
    ELSE LET new == UNION {RxEnds(r, s, i) : i \in frontier} \ done
         IN  RxStarEnds(r, s, done \cup new, new)

\* re.search(r, s): whether there is a match and match.start(), the
\* leftmost index (from 0) at which a match starts.
re_search(r, s) ==
    LET starts == {i \in 1..(Len(s) + 1) : RxEnds(r, s, i) # {}}
    IN  IF starts = {} THEN [found |-> FALSE, start |-> 0]
        ELSE [found |-> TRUE,
              start |-> (CHOOSE i \in starts : \A j \in starts : i <= j) - 1]

\* ((^|\n)(?P<key>[A-Z]\w+(-\w+)*):(?P<value>[^\n]*(\n\s+[^\n]*)*))+$
REGEX_RFC822_POSTFIX ==
    RxSeq(<<
        RxPlus(RxSeq(<<
            RxAlt(<<RxBol, RxSet({10})>>),
            RxSet(Upper), RxPlus(RxSet(Word)),
            RxStar(RxSeq(<<RxSet({45}), RxPlus(RxSet(Word))>>)),
            RxSet({58}),
            RxStar(RxNot({10})),
            RxStar(RxSeq(<<RxSet({10}), RxPlus(RxSet(Space)), RxStar(RxNot({10}))>>))
        >>)),
        RxEol
    >>)

\* Keys of the decoded entry and names of attributes.
str_sha == <<115, 104, 97>>
str_summary == <<115, 117, 109, 109, 97, 114, 121>>
str_description == <<100, 101, 115, 99, 114, 105, 112, 116, 105, 111, 110>>
str_trailers == <<116, 114, 97, 105, 108, 101, 114, 115>>
str_type == <<116, 121, 112, 101>>
str_jira_id == <<106, 105, 114, 97, 95, 105, 100>>
str_tag == <<116, 97, 103>>
str_msg == <<109, 115, 103>>
str_is_parsed == <<105, 115, 95, 112, 97, 114, 115, 101, 100>>
str_is_valid == <<105, 115, 95, 118, 97, 108, 105, 100>>
str_bogus == <<98, 111, 103, 117, 115>>

\* A dict: a function from its keys to their values. {**a, **b}
EmptyDict == <<>>
DictMerge(a, b) == b @@ a

\* A dict of the trailers in which the first value of a key is kept.
RECURSIVE trailers_dict_first_wins(_, _)
trailers_dict_first_wins(trailers, acc) ==
    IF trailers = <<>> THEN acc
    ELSE trailers_dict_first_wins(Tail(trailers),
             DictMerge(StrReplace(lower(strip(Head(trailers).key)), 45, 95)
                           :> PyStr(strip(Head(trailers).value.s)),
                       acc))

\* The dict comprehension over the trailers: each trailer is a mapping with
\* one key; a key that comes again replaces the value put before.
RECURSIVE trailers_dict(_, _)
trailers_dict(trailers, acc) ==
    IF trailers = <<>> THEN acc
    ELSE trailers_dict(Tail(trailers),
             DictMerge(acc,
                 StrReplace(lower(strip(Head(trailers).key)), 45, 95)
                     :> PyStr(strip(Head(trailers).value.s))))

\* _format_commit_attr(key, value) for key = 'description', a str.
format_description(value) ==
    LET m == re_search(REGEX_RFC822_POSTFIX, value.s)
    IN  PyStr(strip(IF m.found THEN strip(SubSeq(value.s, 1, m.start)) ELSE value.s))

\* _format_commit_attr(key, value): the trailers as a dict, the description
\* without its trailers, any other str stripped, any other value as it is.
_format_commit_attr(key, value) ==
    IF key = str_trailers THEN trailers_dict(value, EmptyDict)
    ELSE IF key = str_description THEN format_description(value)
    ELSE IF value.kind = "str" THEN PyStr(strip(value.s))
    ELSE value

\* The pieces descriptions are made of: "Ab", ":", "x", a newline, a space.
Pieces == {<<65, 98>>, <<58>>, <<120>>, <<10>>, <<32>>}

\* Most pieces in a description.
MaxPieces == 5

RECURSIVE Concat(_)
Concat(ps) == IF ps = <<>> THEN <<>> ELSE Head(ps) \o Concat(Tail(ps))

Descriptions == {Concat(ps) : ps \in UNION {[1..n -> Pieces] : n \in 0..MaxPieces}}

FormatInit ==
    /\ lists = [l \in ListIds |-> <<>>]
    /\ objs = [c \in CommitIds |-> [has_tag |-> FALSE, _tag |-> PyNone, queries |-> 0]]
    /\ result = NoResult
    /\ last = NoCall
    /\ SchemaIdle /\ DatesIdle /\ ParseIdle /\ RangeIdle
    /\ WorkIdle /\ GithubIdle
    /\ \E text \in Descriptions : attr_in = [key |-> str_description, value |-> PyStr(text)]
    /\ attr_out = [done |-> FALSE, value |-> <<>>]

\* _format_commit_attr(key, value), called once on the input.
FormatAttr ==
    /\ ~attr_out.done
    /\ attr_out' = [done |-> TRUE, value |-> _format_commit_attr(attr_in.key, attr_in.value)]
    /\ UNCHANGED attr_in
    /\ UNCHANGED <<query_vars, schema_vars, dates, parse_vars, range_vars,
                   work_vars, github_vars>>

FormatNext == FormatAttr

FormatSpec == FormatInit /\ [][FormatNext]_vars

(* ------------------------------------------------------------------ *)
(* Commit: construction from a raw entry, attribute reads               *)
(* ------------------------------------------------------------------ *)

\* The schema the entries are parsed with: per field its label, whether it
\* is required, and its choices ({} when any value is allowed; "x" is the
\* one type allowed).
CommitSchema == <<
    [label |-> str_sha, required |-> TRUE, choices |-> {}],
    [label |-> str_summary, required |-> TRUE, choices |-> {}],
    [label |-> str_description, required |-> FALSE, choices |-> {}],
    [label |-> str_type, required |-> TRUE, choices |-> {<<120>>}],
    [label |-> str_jira_id, required |-> FALSE, choices |-> {}],
    [label |-> str_tag, required |-> FALSE, choices |-> {}]
>>

CommitLabels == {CommitSchema[i].label : i \in DOMAIN CommitSchema}

\* schema.parse(data): the FormalDict of data. A field whose value is not
\* one of its choices, or that is required and missing, adds an error and
\* is left out of the parsed fields; keys the schema does not declare are
\* not kept.
schema_parse(data) ==
    LET Valid(f) == f.label \in DOMAIN data
                    /\ (f.choices = {} \/ data[f.label].s \in f.choices)
        Wrong(f) == IF f.label \in DOMAIN data THEN ~Valid(f) ELSE f.required
        good == {CommitSchema[i].label : i \in {j \in DOMAIN CommitSchema : Valid(CommitSchema[j])}}
        bad == SelectSeq(CommitSchema, Wrong)
    IN  [parsed |-> [l \in good |-> data[l]],
         errors |-> [i \in DOMAIN bad |-> [type |-> "ValidationError", about |-> bad[i].label]]]

\* The first line of an entry of the log, "sha: 1f" and a newline, and a
\* first line that is not of this form.
sha_line == <<115, 104, 97, 58, 32, 49, 102, 10>>
other_line == <<120, 10>>

\* r'sha: (?P<sha>[a-fA-F\d]+)\n'
REGEX_SHA == RxSeq(<<RxText(<<115, 104, 97, 58, 32>>), RxPlus(RxSet(Hex)), RxSet({10})>>)

\* re.match(REGEX_SHA, text): whether it matches and the group `sha`.
match_sha(text) ==
    LET ends == RxEnds(REGEX_SHA, text, 1)
    IN  IF ends = {} THEN [found |-> FALSE, sha |-> <<>>]
        ELSE [found |-> TRUE,
              sha |-> SubSeq(text, 6, (CHOOSE j \in ends : TRUE) - 2)]

\* Most trailers of an entry.
MaxTrailers == 2

\* The trailers of the entries: "Type", "type", " Jira-Id ", "Tag" and
\* "Summary" with the values " x " and "y".
TrailerKeys == {<<84, 121, 112, 101>>, <<116, 121, 112, 101>>, <<32, 74, 105, 114, 97, 45, 73, 100, 32>>, <<84, 97, 103>>, <<83, 117, 109, 109, 97, 114, 121>>}
TrailerValues == {PyStr(<<32, 120, 32>>), PyStr(<<121>>)}
Trailers == {[key |-> k, value |-> v] : k \in TrailerKeys, v \in TrailerValues}
TrailerLists == UNION {[1..n -> Trailers] : n \in 0..MaxTrailers}

\* The top-level keys of a decoded entry other than trailers: sha "1f",
\* summary " s", description "d" with the trailer line "Ty: x".
TopLevel ==
    (str_sha :> PyStr(<<49, 102>>))
    @@ (str_summary :> PyStr(<<32, 115>>))
    @@ (str_description :> PyStr(<<100, 10, 10, 84, 121, 58, 32, 120>>))

\* A raw entry: its first line, what yaml.safe_load makes of its text (an
\* error, a value that is not a mapping, a mapping), the mapping, and
\* whether schema.parse raises on it.
RawEntry(first, yaml, data, parse_raises) ==
    [first |-> first, yaml |-> yaml, data |-> data, parse_raises |-> parse_raises]

\* The entries `git log` prints with the format of _git_log_as_yaml: sha is
\* rendered first; the text may not be YAML; a mapping has its trailers.
LogEntries ==
    {RawEntry(sha_line, "malformed", EmptyDict, FALSE)}
    \cup {RawEntry(sha_line, "mapping", (str_trailers :> ts) @@ TopLevel, r) :
             ts \in TrailerLists, r \in BOOLEAN}

\* The messages a Commit can be constructed from: those of the log, and
\* texts that do not start with the sha or have no trailers key.
RawEntries ==
    LogEntries
    \cup {RawEntry(other_line, "malformed", EmptyDict, FALSE),
          RawEntry(other_line, "scalar", EmptyDict, FALSE),
          RawEntry(sha_line, "mapping", TopLevel, FALSE)}

\* What makes the try block of Commit.__init__ raise, "" when it does not:
\* yaml.safe_load raises, the value has no items(), the mapping has no
\* key 'trailers', schema.parse raises.
decode_error(m) ==
    IF m.yaml = "malformed" THEN "YAMLError"
    ELSE IF m.yaml # "mapping" THEN "AttributeError"
    ELSE IF str_trailers \notin DOMAIN m.data THEN "KeyError"
    ELSE IF m.parse_raises THEN "Exception"
    ELSE ""

\* The flattened commit_data: the formatted attributes other than trailers,
\* then the formatted trailers.
flatten(data) ==
    LET formatted == [k \in DOMAIN data |-> _format_commit_attr(k, data[k])]
    IN  DictMerge([k \in (DOMAIN formatted) \ {str_trailers} |-> formatted[k]],
                  formatted[str_trailers])

\* A degraded record without its parse error.
degraded_without_error(sha, exc) ==
    [status |-> "Commit", is_parsed |-> FALSE, flat |-> EmptyDict,
     schema_data |-> [parsed |-> (str_sha :> PyStr(sha)), errors |-> <<>>]]

\* The Commit constructed in the except block: the sha and one error.
degraded(sha, exc) ==
    [status |-> "Commit", is_parsed |-> FALSE, flat |-> EmptyDict,
     schema_data |-> [parsed |-> (str_sha :> PyStr(sha)),
                      errors |-> <<[type |-> "CommitParseError", about |-> exc]>>]]

\* A Commit.__init__ without its except block: what the try block raises
\* leaves the constructor.
Commit_without_except(m) ==
    IF decode_error(m) = ""
    THEN [status |-> "Commit", is_parsed |-> TRUE, flat |-> flatten(m.data),
          schema_data |-> schema_parse(flatten(m.data))]
    ELSE [status |-> decode_error(m), is_parsed |-> FALSE, flat |-> EmptyDict,
          schema_data |-> [parsed |-> EmptyDict, errors |-> <<>>]]

\* Commit.__init__(msg, schema): the Commit object, or the AttributeError
\* of match.group when the try block raised and the text does not start
\* with the sha. flat is the commit_data given to schema.parse.
Commit(m) ==
    LET exc == decode_error(m)
        match == match_sha(m.first)
    IN  IF exc = ""
        THEN [status |-> "Commit", is_parsed |-> TRUE, flat |-> flatten(m.data),
              schema_data |-> schema_parse(flatten(m.data))]
        ELSE IF match.found THEN degraded(match.sha, exc)
        ELSE [status |-> "AttributeError", is_parsed |-> FALSE, flat |-> EmptyDict,
              schema_data |-> [parsed |-> EmptyDict, errors |-> <<>>]]

\* schema_data.is_valid
is_valid(c) == c.schema_data.errors = <<>>

\* The attributes the Commit object has itself: object.__getattribute__
\* finds them.
ObjectAttributes == {str_is_parsed, str_is_valid, str_msg, str_tag}

\* Commit.__getattribute__ without the schema: an attribute the object
\* does not have raises.
getattribute_object_only(c, m, attr, described) ==
    IF attr = str_is_parsed THEN PyBool(c.is_parsed)
    ELSE IF attr = str_is_valid THEN PyBool(is_valid(c))
    ELSE IF attr = str_msg THEN PyStr(m.first)
    ELSE IF attr = str_tag THEN described
    ELSE IF attr \in DOMAIN c.schema_data.parsed THEN c.schema_data.parsed[attr]
    ELSE AttrError

\* Commit.__getattribute__ on a constructed Commit c of the message m: the
\* attribute of the object if it has one (tag gives what Tag.from_sha
\* returns, described), else the parsed field, else None for a label of
\* the schema, else AttributeError.
getattribute_of(c, m, attr, described) ==
    IF attr = str_is_parsed THEN PyBool(c.is_parsed)
    ELSE IF attr = str_is_valid THEN PyBool(is_valid(c))
    ELSE IF attr = str_msg THEN PyStr(m.first)
    ELSE IF attr = str_tag THEN described
    ELSE IF c.schema_data.parsed # EmptyDict /\ attr \in DOMAIN c.schema_data.parsed
         THEN c.schema_data.parsed[attr]
    ELSE IF attr \in CommitLabels THEN PyNone
    ELSE AttrError

\* The attributes read.
ReadAttrs == {str_sha, str_summary, str_type, str_jira_id, str_tag,
              str_is_parsed, str_bogus}

ParseInit ==
    /\ lists = [l \in ListIds |-> <<>>]
    /\ objs = [c \in CommitIds |-> [has_tag |-> FALSE, _tag |-> PyNone, queries |-> 0]]
    /\ result = NoResult
    /\ last = NoCall
    /\ SchemaIdle /\ DatesIdle /\ FormatIdle /\ RangeIdle
    /\ WorkIdle /\ GithubIdle
    /\ msg \in RawEntries
    /\ commit = [status |-> "none"]
    /\ read = [attr |-> <<>>, value |-> Absent]

\* Commit(msg, schema)
Construct ==
    /\ commit.status = "none"
    /\ commit' = Commit(msg)
    /\ UNCHANGED <<msg, read>>
    /\ UNCHANGED <<query_vars, schema_vars, dates, format_vars, range_vars,
                   work_vars, github_vars>>

\* getattr(commit, attr); reading tag resolves it to None or to the tag v1.
GetAttr ==
    /\ commit.status = "Commit"
    /\ \E attr \in ReadAttrs, described \in {PyNone, Tag(str_v1)} :
          read' = [attr |-> attr, value |-> getattribute_of(commit, msg, attr, described)]
    /\ UNCHANGED <<msg, commit>>
    /\ UNCHANGED <<query_vars, schema_vars, dates, format_vars, range_vars,
                   work_vars, github_vars>>

ParseNext == Construct \/ GetAttr

ParseSpec == ParseInit /\ [][ParseNext]_vars

(* ------------------------------------------------------------------ *)
(* CommitRange: construction                                            *)
(* ------------------------------------------------------------------ *)

\* version.parse(s) for a release "N.N.N": its numbers.
RECURSIVE version_parse(_, _)
version_parse(s, n) ==
    IF s = <<>> THEN <<n>>
    ELSE IF Head(s) = 46 THEN <<n>> \o version_parse(Tail(s), 0)
    ELSE version_parse(Tail(s), n * 10 + (Head(s) - 48))

\* a < b on two versions: number by number, a missing number being 0.
RECURSIVE VersionLess(_, _)
VersionLess(a, b) ==
    IF a = <<>> /\ b = <<>> THEN FALSE
    ELSE LET x == IF a = <<>> THEN 0 ELSE Head(a)
             y == IF b = <<>> THEN 0 ELSE Head(b)
         IN  IF x # y THEN x < y
             ELSE VersionLess(IF a = <<>> THEN a ELSE Tail(a),
                              IF b = <<>> THEN b ELSE Tail(b))

\* The versions of git: "2.22.0", "2.22.1", "2.23", "1.1", "2.9".
str_2_22_0 == <<50, 46, 50, 50, 46, 48>>
GitVersions == {str_2_22_0, <<50, 46, 50, 50, 46, 49>>, <<50, 46, 50, 51>>, <<49, 46, 49>>, <<50, 46, 57>>}

\* A version check that compares the texts of the versions.
_check_git_version_as_text(git_version) ==
    IF StrLess(git_version, str_2_22_0) THEN "RuntimeError" ELSE ""

\* _check_git_version(): the error it raises for the version `git --version`
\* prints, "" when it raises none.
_check_git_version(git_version) ==
    IF VersionLess(version_parse(git_version, 0), version_parse(str_2_22_0, 0))
    THEN "RuntimeError"
    ELSE ""

\* ':github/pr', and the ranges a CommitRange is constructed with: '',
\* 'a..' and ':github/pr'.
GITHUB_PR == <<58, 103, 105, 116, 104, 117, 98, 47, 112, 114>>
RangeArgs == {<<>>, <<97, 46, 46>>, GITHUB_PR}

\* github.get_pull_request_base(): the error raised when the API call fails
\* or when the branch has no or several pull requests, else 'origin/m'.
get_pull_request_base(api_ok, prs) ==
    IF ~api_ok THEN [raises |-> "GithubPullRequestAPIError", base |-> <<>>]
    ELSE IF prs = 0 THEN [raises |-> "NoGithubPullRequestFoundError", base |-> <<>>]
    ELSE IF prs > 1 THEN [raises |-> "MultipleGithubPullRequestsFoundError", base |-> <<>>]
    ELSE [raises |-> "", base |-> <<111, 114, 105, 103, 105, 110, 47, 109>>]

\* _get_pull_request_range(): f'{base}..'
_get_pull_request_range(api_ok, prs) ==
    LET found == get_pull_request_base(api_ok, prs)
    IN  [raises |-> found.raises, range |-> found.base \o <<46, 46>>]

\* Most entries of a log.
MaxEntries == 3

\* The entries of the logs: one that is not YAML, one with the trailer
\* "Type: x", one without trailers on which schema.parse raises.
RangeEntries ==
    {RawEntry(sha_line, "malformed", EmptyDict, FALSE),
     RawEntry(sha_line, "mapping",
              (str_trailers :> <<[key |-> <<84, 121, 112, 101>>, value |-> PyStr(<<32, 120, 32>>)]>>)
              @@ TopLevel, FALSE),
     RawEntry(sha_line, "mapping", (str_trailers :> <<>>) @@ TopLevel, TRUE)}

\* What `git log` prints with the format of _git_log_as_yaml: each entry
\* followed by the delimiter.
Delimiter == [t |-> "delimiter", e |-> <<>>]
RECURSIVE git_log_stdout(_)
git_log_stdout(entries) ==
    IF entries = <<>> THEN <<>>
    ELSE <<[t |-> "entry", e |-> Head(entries)], Delimiter>> \o git_log_stdout(Tail(entries))

\* stdout.split(delimiter): the pieces between the delimiters.
RECURSIVE split(_, _)
split(stdout, piece) ==
    IF stdout = <<>> THEN <<piece>>
    ELSE IF Head(stdout) = Delimiter THEN <<piece>> \o split(Tail(stdout), <<>>)
    ELSE split(Tail(stdout), Append(piece, Head(stdout)))

\* A list of the messages in which a message equal to the one before it is
\* left out.
_git_log_as_yaml_without_repeats(entries) ==
    LET msgs == SelectSeq(split(git_log_stdout(entries), <<>>), LAMBDA piece : piece # <<>>)
        kept == {i \in DOMAIN msgs : i = 1 \/ msgs[i] # msgs[i - 1]}
        nth(k) == CHOOSE i \in kept : Cardinality({j \in kept : j <= i}) = k
    IN  [k \in 1..Cardinality(kept) |-> msgs[nth(k)][1].e]

\* _git_log_as_yaml(git_log_cmd): the pieces of the output that are not
\* empty, each the message of one commit.
_git_log_as_yaml(entries) ==
    LET msgs == SelectSeq(split(git_log_stdout(entries), <<>>), LAMBDA piece : piece # <<>>)
    IN  [i \in DOMAIN msgs |-> msgs[i][1].e]

\* The external commands: the pull request lookup, the fetch, the log of a
\* range.
PullsCall == [cmd |-> "pulls", range |-> <<>>]
FetchCall == [cmd |-> "fetch", range |-> <<>>]
LogCall(range) == [cmd |-> "log", range |-> range]

RangeInit ==
    /\ lists = [l \in ListIds |-> <<>>]
    /\ objs = [c \in CommitIds |-> [has_tag |-> FALSE, _tag |-> PyNone, queries |-> 0]]
    /\ result = NoResult
    /\ last = NoCall
    /\ SchemaIdle /\ DatesIdle /\ ParseIdle /\ FormatIdle
    /\ WorkIdle /\ GithubIdle
    /\ \E range \in RangeArgs, git_version \in GitVersions, api_ok \in BOOLEAN,
          prs \in 0..2, fetch_ok \in BOOLEAN,
          entries \in UNION {[1..n -> RangeEntries] : n \in 0..MaxEntries} :
          env = [range |-> range, git_version |-> git_version, api_ok |-> api_ok,
                 prs |-> prs, fetch_ok |-> fetch_ok, entries |-> entries]
    /\ calls = <<>>
    /\ built = [status |-> "none", commits |-> <<>>]

\* What CommitRange.__init__ raised.
Raised(error) == [status |-> error, commits |-> <<>>]

\* What the first Commit of the list comprehension that raises, raised.
FirstRaised(commits) ==
    commits[CHOOSE i \in DOMAIN commits :
                /\ commits[i].status # "Commit"
                /\ \A j \in 1..(i - 1) : commits[j].status = "Commit"].status

\* CommitRange(range): the schema of the repository loads; then the version
\* check, the pull request lookup for ':github/pr', the fetch, the log and
\* one Commit per message.
ConstructRange ==
    /\ built.status = "none"
    /\ LET version_error == _check_git_version(env.git_version)
           pr == IF env.range = GITHUB_PR
                 THEN _get_pull_request_range(env.api_ok, env.prs)
                 ELSE [raises |-> "", range |-> env.range]
           looked_up == IF env.range = GITHUB_PR THEN <<PullsCall>> ELSE <<>>
           commits == [i \in DOMAIN _git_log_as_yaml(env.entries) |->
                          Commit(_git_log_as_yaml(env.entries)[i])]
       IN  IF version_error # ""
           THEN calls' = <<>> /\ built' = Raised(version_error)
           ELSE IF pr.raises # ""
           THEN calls' = looked_up /\ built' = Raised(pr.raises)
           ELSE IF ~env.fetch_ok
           THEN calls' = looked_up \o <<FetchCall>> /\ built' = Raised("CalledProcessError")
           ELSE /\ calls' = looked_up \o <<FetchCall, LogCall(pr.range)>>
                /\ built' =
                      IF \E i \in DOMAIN commits : commits[i].status # "Commit"
                      THEN Raised(FirstRaised(commits))
                      ELSE [status |-> "CommitRange", commits |-> commits]
    /\ UNCHANGED env
    /\ UNCHANGED <<query_vars, schema_vars, dates, parse_vars, format_vars,
                   work_vars, github_vars>>

RangeNext == ConstructRange

RangeSpec == RangeInit /\ [][RangeNext]_vars

(* ------------------------------------------------------------------ *)
(* Properties of the query operations                                   *)
(* ------------------------------------------------------------------ *)

\* The receiver of the last call and the collection it returned.
Receiver == lists[last.self]
Returned == lists[result.ids[1]]

\* The value of the queried attribute on commit c.
AttrOf(c) == getattribute(c, objs[c], last.attr)

\* The position of commit c in the list xs (the commits of a list are distinct).
IndexIn(xs, c) == CHOOSE i \in DOMAIN xs : xs[i] = c

\* ys holds commits of xs, each at most once, in the order they have in xs.
IsOrderedSublist(ys, xs) ==
    /\ Range(ys) \subseteq Range(xs)
    /\ \A i, j \in DOMAIN ys : i < j => IndexIn(xs, ys[i]) < IndexIn(xs, ys[j])

\* The last call was a filter or an exclude that returned a collection.
Selected(op) == last.op = op /\ result.kind = "Commits"

\* The last call was a group that returned its ordered mapping.
Grouped == last.op = "group" /\ result.kind = "OrderedDict"

\* What the complementary call (exclude for filter, filter for exclude) with
\* the same arguments returns on the same receiver.
Complement ==
    LET b == IF last.match THEN last.pattern ELSE last.value
    IN  IF last.op = "filter"
        THEN exclude(Receiver, objs, last.attr, b, last.match)
        ELSE filter(Receiver, objs, last.attr, b, last.match)

\* C1: filter(a, v, match) and exclude(a, v, match) partition the collection:
\* no element is in both results and every element of the collection is in
\* exactly one of them.
C1_FilterExcludePartition ==
    (Selected("filter") \/ Selected("exclude")) =>
        /\ Range(Returned) \cap Range(Complement) = {}
        /\ Range(Returned) \cup Range(Complement) = Range(Receiver)
        /\ Len(Returned) + Len(Complement) = Len(Receiver)

C1_Witness ==
    /\ Selected("exclude")
    /\ last.match
    /\ Returned # <<>>
    /\ Complement # <<>>

\* The condition under which the claim says filter keeps commit c.
Kept(c) ==
    \/ /\ ~last.match
       /\ \/ IsStringLike(AttrOf(c)) /\ IsStringLike(last.value) /\ AttrOf(c).s = last.value.s
          \/ AttrOf(c).kind = "bool" /\ last.value.kind = "bool" /\ AttrOf(c).b = last.value.b
          \/ AttrOf(c) = PyNone /\ last.value = PyNone
    \/ /\ last.match
       /\ AttrOf(c).kind = "str"
       /\ ReMatch(last.pattern, AttrOf(c).s)

\* C2: filter(attr, value, match) returns, in their original relative order,
\* exactly the elements whose attribute equals value (match false; a null
\* value selects the null attributes) or is a str that matches the pattern
\* anchored at the start (match true); under match a null or non-str
\* attribute is never kept.
C2_FilterKeepsExactlyTheMatching ==
    Selected("filter") =>
        /\ IsOrderedSublist(Returned, Receiver)
        /\ Range(Returned) = {c \in Range(Receiver) : Kept(c)}
        /\ last.match =>
              \A i \in DOMAIN Returned : AttrOf(Returned[i]).kind = "str"

C2_Witness ==
    /\ Selected("filter")
    /\ last.match
    /\ last.attr = "type"
    /\ Len(Returned) >= 1
    /\ Len(Returned) < Len(Receiver)
    /\ \E c \in Range(Receiver) : AttrOf(c) = PyNone

\* The group stored under the k-th key.
GroupOf(k) == lists[result.ids[k]]

\* C3: group(a), with any flags, returns groups whose union is the
\* collection; every element of the group of key k has attribute a equal to
\* k, and the group of k is exactly filter(a, k).
C3_GroupsCoverAndMatchKey ==
    Grouped =>
        /\ Len(result.ids) = Len(result.keys)
        /\ UNION {Range(GroupOf(k)) : k \in DOMAIN result.keys} = Range(Receiver)
        /\ \A k \in DOMAIN result.keys :
              /\ \A i \in DOMAIN GroupOf(k) : PyEq(AttrOf(GroupOf(k)[i]), result.keys[k])
              /\ GroupOf(k) = filter(Receiver, objs, last.attr, result.keys[k], FALSE)
              /\ IsOrderedSublist(GroupOf(k), Receiver)

C3_Witness ==
    /\ Grouped
    /\ Len(result.keys) >= 2
    /\ \E k \in DOMAIN result.keys : Len(GroupOf(k)) >= 2
    /\ last.descending_keys /\ last.none_key_first

\* The position of the first commit of the receiver whose attribute is key.
FirstOccurrence(key) ==
    CHOOSE i \in DOMAIN Receiver :
        /\ PyEq(AttrOf(Receiver[i]), key)
        /\ \A j \in 1..(i - 1) : ~PyEq(AttrOf(Receiver[j]), key)

\* Every value of the attribute is a key, once.
KeysAreTheDistinctValues ==
    /\ \A c \in Range(Receiver) : PyIn(AttrOf(c), result.keys)
    /\ \A k \in DOMAIN result.keys : \E c \in Range(Receiver) : PyEq(AttrOf(c), result.keys[k])
    /\ \A j, k \in DOMAIN result.keys : j # k => ~PyEq(result.keys[j], result.keys[k])

\* C4: without a sort flag and without a none-key flag, the keys are the
\* distinct values of the attribute in the order of their first occurrence
\* in the collection, the null key at the position of its first occurrence.
C4_DefaultKeysInFirstSeenOrder ==
    (/\ Grouped
     /\ ~last.ascending_keys /\ ~last.descending_keys
     /\ ~last.none_key_first /\ ~last.none_key_last) =>
        /\ KeysAreTheDistinctValues
        /\ \A j, k \in DOMAIN result.keys :
              j < k => FirstOccurrence(result.keys[j]) < FirstOccurrence(result.keys[k])

C4_Witness ==
    /\ Grouped
    /\ ~last.ascending_keys /\ ~last.descending_keys
    /\ ~last.none_key_first /\ ~last.none_key_last
    /\ Len(result.keys) = 3
    /\ result.keys[2] = PyNone
    /\ PyLess(result.keys[3], result.keys[1])

\* The non-null keys of the result, in the order they have in it.
NonNullKeys(keys) == SelectSeq(keys, LAMBDA k : k # PyNone)

Increasing(keys) == \A j, k \in DOMAIN keys : j < k => PyLess(keys[j], keys[k])
Decreasing(keys) == \A j, k \in DOMAIN keys : j < k => PyLess(keys[k], keys[j])

\* C5: with ascending_keys alone the non-null keys are in increasing order,
\* with descending_keys alone in decreasing order; in both cases, when a
\* null key exists and no none-key flag is given, the null key is last.
C5_SortedKeys ==
    Grouped =>
        /\ (last.ascending_keys /\ ~last.descending_keys) =>
              Increasing(NonNullKeys(result.keys))
        /\ (last.descending_keys /\ ~last.ascending_keys) =>
              Decreasing(NonNullKeys(result.keys))
        /\ (/\ last.ascending_keys # last.descending_keys
            /\ ~last.none_key_first /\ ~last.none_key_last
            /\ PyIn(PyNone, result.keys)) =>
              result.keys[Len(result.keys)] = PyNone
        /\ (last.ascending_keys \/ last.descending_keys) => KeysAreTheDistinctValues

C5_Witness ==
    /\ Grouped
    /\ last.ascending_keys /\ ~last.descending_keys
    /\ ~last.none_key_first /\ ~last.none_key_last
    /\ Len(result.keys) = 3
    /\ result.keys[3] = PyNone
    /\ AttrOf(Receiver[1]) = result.keys[2]
    /\ AttrOf(Receiver[2]) = PyNone

\* The keys group would return for the last call without a none-key flag.
KeysNotRelocated ==
    resort_keys(natural_keys(Receiver, objs, last.attr),
                last.ascending_keys, last.descending_keys)

\* C6, as claimed: whenever a null key exists, none_key_first puts it at
\* index 0 and none_key_last at the final index, for every combination of
\* the other flags; the order of the non-null keys is not changed.
C6_NoneKeyFlagsAsClaimed ==
    (Grouped /\ PyIn(PyNone, result.keys)) =>
        /\ last.none_key_first => result.keys[1] = PyNone
        /\ last.none_key_last => result.keys[Len(result.keys)] = PyNone
        /\ NonNullKeys(result.keys) = NonNullKeys(KeysNotRelocated)

\* C6, amended: none_key_first puts the null key at index 0 for every
\* combination of the other flags; none_key_last puts it at the final index
\* when none_key_first is not set as well; the order of the non-null keys is
\* not changed by the relocation.
C6_NoneKeyFlags ==
    (Grouped /\ PyIn(PyNone, result.keys)) =>
        /\ last.none_key_first => result.keys[1] = PyNone
        /\ (last.none_key_last /\ ~last.none_key_first) =>
              result.keys[Len(result.keys)] = PyNone
        /\ NonNullKeys(result.keys) = NonNullKeys(KeysNotRelocated)

C6_Witness ==
    /\ Grouped
    /\ last.none_key_first /\ last.none_key_last
    /\ Len(result.keys) = 3
    /\ result.keys[1] = PyNone
    /\ AttrOf(Receiver[2]) = PyNone

\* C7: filter, exclude and group never mutate their receiver, nor the range
\* a chained receiver came from: each call leaves the lists of both with the
\* same records in the same order, and what it returns are new collections.
C7_ReceiverNotMutated ==
    [][/\ lists'[last'.self] = lists[last'.self]
       /\ lists'[0] = lists[0]
       /\ \A k \in DOMAIN result'.ids : result'.ids[k] \notin {0, last'.self}
       /\ \A j, k \in DOMAIN result'.ids : j # k => result'.ids[j] # result'.ids[k]]_vars

C7_Witness ==
    /\ Selected("filter")
    /\ last.self # 0
    /\ Len(Receiver) = 2
    /\ Len(Returned) = 1
    /\ Len(lists[0]) = 3

\* C8, as claimed: evaluating filter, exclude or group leaves the state of
\* every record unchanged and issues no external query, whatever the
\* attribute.
C8_NoSideEffectAsClaimed == [][objs' = objs]_vars

\* C8, amended: a call on an attribute other than `tag` leaves every record
\* unchanged and issues no query; a call on `tag` resolves, with one
\* describe query each, the tags of the records of the receiver that are
\* still unresolved, and leaves every other record unchanged.
C8_OnlyTagResolutionIsAnEffect ==
    [][\A c \in CommitIds :
          IF last'.attr = "tag" /\ c \in Range(lists[last'.self]) /\ ~objs[c].has_tag
          THEN objs'[c] = [has_tag |-> TRUE, _tag |-> from_sha(c),
                           queries |-> objs[c].queries + 1]
          ELSE objs'[c] = objs[c]]_vars

C8_Witness ==
    /\ Grouped
    /\ last.attr = "tag"
    /\ last.self # 0
    /\ Len(result.keys) >= 2
    /\ \E c \in Range(lists[0]) : ~objs[c].has_tag
    /\ \A c \in Range(Receiver) : objs[c].has_tag /\ objs[c].queries = 1

(* ------------------------------------------------------------------ *)
(* Properties of the schema                                             *)
(* ------------------------------------------------------------------ *)

\* The entries of the user file, as the loader reads them.
UserFields == IF user_file.readable THEN user_file.entries ELSE <<>>

\* A user entry the claim says makes the build fail.
BadEntry(e) == ~e.has_label \/ (e.multiline /\ e.label # "description")

Labels(schema) == [i \in DOMAIN schema |-> schema[i].label]

\* The labels of the defaults, and whether a user entry has label l.
DefaultLabels == Labels(default_schema(full))
IsDefaultLabel(l) == \E i \in DOMAIN DefaultLabels : DefaultLabels[i] = l
IsUserLabel(l) == \E i \in DOMAIN UserFields : UserFields[i].label = l

\* C10, as claimed: the field order is the default fields in default order,
\* each replaced in place by the user field of the same label if there is
\* one, followed by the user fields whose label is not a default label, in
\* the order supplied.
C10_OrderAsClaimed ==
    loaded.status = "Schema" =>
        Labels(loaded.schema) =
            DefaultLabels
            \o SelectSeq(Labels(UserFields), LAMBDA l : ~IsDefaultLabel(l))

\* The number of default fields no user field overrides.
KeptDefaults == Cardinality({i \in DOMAIN DefaultLabels : ~IsUserLabel(DefaultLabels[i])})

\* C10, amended: the field order is the default fields that no user field
\* overrides, in default order, followed by all the user fields in the
\* order supplied: a user field that overrides a default is not put at the
\* default's position, it keeps its position among the user fields.
C10_OverridesKeepUserPosition ==
    loaded.status = "Schema" =>
        /\ Len(loaded.schema) = KeptDefaults + Len(UserFields)
        /\ \A i \in 1..KeptDefaults :
              /\ IsDefaultLabel(loaded.schema[i].label)
              /\ ~IsUserLabel(loaded.schema[i].label)
              /\ loaded.schema[i] \in Range(default_schema(full))
        /\ \A i, j \in 1..KeptDefaults :
              i < j =>
                 \E a, b \in DOMAIN DefaultLabels :
                    /\ a < b
                    /\ DefaultLabels[a] = loaded.schema[i].label
                    /\ DefaultLabels[b] = loaded.schema[j].label
        /\ \A j \in DOMAIN UserFields : loaded.schema[KeptDefaults + j] = UserFields[j]

C10_Witness ==
    /\ loaded.status = "Schema"
    /\ ~full
    /\ Labels(UserFields) = <<"type", "summary">>
    /\ Labels(loaded.schema) = <<"description", "type", "summary">>

\* C11: the built schema is the default fields whose label no user field
\* uses, in default order, followed by all the user fields in the order
\* supplied; with the full defaults, the user fields type, summary,
\* description give sha, author_name, author_email, author_date,
\* committer_name, committer_email, committer_date, type, summary,
\* description.
C11_KeptDefaultsThenUserFields ==
    loaded.status = "Schema" =>
        /\ loaded.schema =
              SelectSeq(default_schema(full), LAMBDA e : ~IsUserLabel(e.label))
              \o UserFields
        /\ (full /\ Labels(UserFields) = <<"type", "summary", "description">>) =>
              Labels(loaded.schema) =
                  <<"sha", "author_name", "author_email", "author_date",
                    "committer_name", "committer_email", "committer_date",
                    "type", "summary", "description">>

C11_Witness ==
    /\ loaded.status = "Schema"
    /\ full
    /\ Labels(UserFields) = <<"type", "summary", "description">>
    /\ Len(loaded.schema) = 10
    /\ loaded.schema[8].label = "type"

(* ------------------------------------------------------------------ *)
(* Properties of tags                                                   *)
(* ------------------------------------------------------------------ *)

\* C17, as claimed: the date of a tag issues exactly one date query, on the
\* first access, and the result is memoized; a date query that fails or
\* whose output cannot be parsed gives a null date that is memoized as null
\* and never retried: no read of a date raises, and a tag for which a query
\* was issued has its date set and gets no second query.
C17_DateQueriedOnceAsClaimed ==
    \A c \in CommitIds :
        /\ ~dates[c].raised
        /\ dates[c].queries = (IF dates[c].has_date THEN 1 ELSE 0)

\* C18: the tag of a record is resolved lazily and at most once: a range
\* that was just constructed has issued no describe query; the first read
\* of the tag of a record, direct or by filter, exclude or group on `tag`,
\* issues exactly one describe query for it and keeps the result, a null
\* result included; no later read changes the record or issues a query.
C18_TagResolvedLazilyOnce ==
    /\ \A c \in CommitIds : ~objs[c].has_tag /\ objs[c].queries = 0
    /\ [](\A c \in CommitIds :
            /\ objs[c].queries = (IF objs[c].has_tag THEN 1 ELSE 0)
            /\ objs[c].has_tag => objs[c]._tag = from_sha(c))
    /\ [][\A c \in CommitIds :
            /\ objs[c].has_tag => objs'[c] = objs[c]
            /\ objs'[c] # objs[c] =>
                   objs'[c] = [has_tag |-> TRUE, _tag |-> from_sha(c),
                               queries |-> objs[c].queries + 1]]_vars

C18_Witness ==
    /\ Grouped
    /\ last.attr = "tag"
    /\ Len(result.keys) >= 2
    /\ \E c \in Range(lists[0]) :
          /\ dates[c].has_date
          /\ objs[c] = [has_tag |-> TRUE, _tag |-> Tag(str_v1), queries |-> 1]
    /\ \E c \in Range(lists[0]) :
          objs[c] = [has_tag |-> TRUE, _tag |-> PyNone, queries |-> 1]

(* ------------------------------------------------------------------ *)
(* Properties of the parser                                             *)
(* ------------------------------------------------------------------ *)

\* s.split('\n')
RECURSIVE Lines(_)
Lines(s) ==
    IF \A i \in DOMAIN s : s[i] # 10 THEN <<s>>
    ELSE LET n == CHOOSE i \in DOMAIN s : s[i] = 10 /\ \A j \in 1..(i - 1) : s[j] # 10
         IN  <<SubSeq(s, 1, n - 1)>> \o Lines(SubSeq(s, n + 1, Len(s)))

\* A line `CapitalizedKey: value`, an indented line, a blank line.
IsKeyLine(line) ==
    RxEnds(RxSeq(<<RxSet(Upper), RxPlus(RxSet(Word)),
                   RxStar(RxSeq(<<RxSet({45}), RxPlus(RxSet(Word))>>)),
                   RxSet({58})>>), line, 1) # {}
IsIndented(line) == line # <<>> /\ line[1] \in {9, 32}
IsBlank(line) == strip(line) = <<>>

\* The text from position k + 1 on is a block of `CapitalizedKey: value`
\* lines with their indented continuation lines that ends the text: it
\* starts at the start of a line, its first line that is not blank is a
\* key line, and each of its lines is a key line, an indented line or a
\* blank line.
IsTrailerBlock(text, k) ==
    LET removed == SubSeq(text, k + 1, Len(text))
        ls == Lines(removed)
    IN  /\ k < Len(text)
        /\ k = 0 \/ text[k] = 10 \/ text[k + 1] = 10
        /\ \E i \in DOMAIN ls :
              /\ IsKeyLine(ls[i])
              /\ \A j \in 1..(i - 1) : ls[j] = <<>>
        /\ \A i \in DOMAIN ls : IsKeyLine(ls[i]) \/ IsIndented(ls[i]) \/ IsBlank(ls[i])

\* C16, as claimed: the post-processing of `description` removes only a
\* block of one or more consecutive `CapitalizedKey: value` lines (with
\* their indented continuation lines) that ends the text and returns the
\* preceding text trimmed; a description with no such block is returned
\* trimmed and otherwise unchanged.
C16_RemovesOnlyTheTrailerBlock ==
    (attr_out.done /\ attr_in.key = str_description) =>
        LET text == attr_in.value.s
        IN  \E k \in 0..Len(text) :
                /\ attr_out.value = PyStr(strip(SubSeq(text, 1, k)))
                /\ \/ IsBlank(SubSeq(text, k + 1, Len(text)))
                   \/ IsTrailerBlock(text, k)

\* The Commit was constructed (the constructor returned).
Constructed == commit.status = "Commit"

\* Decoding the entry fails as the claim lists it: the text is malformed,
\* or is not a mapping, or a top-level key is missing, or the schema parse
\* fails.
DecodingFails ==
    \/ msg.yaml # "mapping"
    \/ str_trailers \notin DOMAIN msg.data
    \/ msg.parse_raises

\* The entry starts with a line `sha: <hex>`, and the hex string.
StartsWithShaLine ==
    /\ Len(msg.first) >= 7
    /\ SubSeq(msg.first, 1, 5) = <<115, 104, 97, 58, 32>>
    /\ msg.first[Len(msg.first)] = 10
    /\ \A i \in 6..(Len(msg.first) - 1) : msg.first[i] \in Hex
ShaOfLine == SubSeq(msg.first, 6, Len(msg.first) - 1)

\* C12: when decoding a raw entry fails for any reason and the entry starts
\* with a line `sha: <hex>`, the record is built with is_parsed = false,
\* is_valid = false, sha equal to that hex string, exactly one validation
\* error that wraps the failure, and no other field populated.
C12_DegradedRecord ==
    (commit.status # "none" /\ DecodingFails /\ StartsWithShaLine) =>
        /\ Constructed
        /\ ~commit.is_parsed
        /\ ~is_valid(commit)
        /\ DOMAIN commit.schema_data.parsed = {str_sha}
        /\ commit.schema_data.parsed[str_sha] = PyStr(ShaOfLine)
        /\ Len(commit.schema_data.errors) = 1
        /\ commit.schema_data.errors[1].type = "CommitParseError"
        /\ commit.schema_data.errors[1].about = decode_error(msg)

C12_Witness ==
    /\ Constructed
    /\ msg.yaml = "mapping"
    /\ msg.parse_raises
    /\ Len(msg.data[str_trailers]) = 2
    /\ ~commit.is_parsed
    /\ read.attr = str_sha
    /\ read.value = PyStr(<<49, 102>>)

\* An attribute was read on the Commit.
WasRead == Constructed /\ read.attr # <<>>

\* The materialized field map of the record.
FieldMap == commit.schema_data.parsed

\* C14, as claimed: reading a field by its label gives the stored value
\* when the label is in the field map, null when the label is declared in
\* the schema but absent from the map, and an attribute error when the
\* label is neither an attribute of the record nor declared in the schema.
C14_ReadAsClaimed ==
    WasRead =>
        IF read.attr \in DOMAIN FieldMap THEN read.value = FieldMap[read.attr]
        ELSE IF read.attr \in CommitLabels THEN read.value = PyNone
        ELSE read.attr \notin ObjectAttributes => read.value = AttrError

\* C14, amended: a label that is the name of an attribute of the record
\* object itself (is_parsed, is_valid, msg, tag) reads that attribute,
\* whatever the field map and the schema hold; any other label gives the
\* stored value when it is in the field map, null when it is declared in
\* the schema but absent from the map (a field that failed validation,
\* every field but sha of a degraded record), and an attribute error when
\* the schema does not declare it.
C14_ReadFallsBackToSchema ==
    WasRead =>
        IF read.attr \in ObjectAttributes
        THEN /\ read.attr = str_is_parsed => read.value = PyBool(commit.is_parsed)
             /\ read.attr = str_tag => read.value.kind \in {"tag", "none"}
        ELSE IF read.attr \in DOMAIN FieldMap THEN read.value = FieldMap[read.attr]
        ELSE IF read.attr \in CommitLabels THEN read.value = PyNone
        ELSE read.value = AttrError

C14_Witness ==
    /\ WasRead
    /\ commit.is_parsed
    /\ read.attr = str_type
    /\ str_type \in DOMAIN commit.flat
    /\ str_type \notin DOMAIN FieldMap
    /\ str_tag \in DOMAIN FieldMap
    /\ read.value = PyNone

\* The trailers of the entry, and the key a trailer key is hoisted under:
\* trimmed, lower-cased, hyphens replaced by underscores.
TrailersOf == msg.data[str_trailers]
Hoisted(key) == StrReplace(lower(strip(key)), 45, 95)

\* The entry was decoded.
Decoded == Constructed /\ commit.is_parsed

LastWithKeyOf(i) ==
    CHOOSE j \in DOMAIN TrailersOf :
        /\ Hoisted(TrailersOf[j].key) = Hoisted(TrailersOf[i].key)
        /\ \A k \in DOMAIN TrailersOf :
              Hoisted(TrailersOf[k].key) = Hoisted(TrailersOf[i].key) => k <= j

Issued(cmd) == SelectSeq(calls, LAMBDA call : call.cmd = cmd)

\* C13: a single bad commit entry never aborts the construction of a commit
\* range: for every sequence of raw entries the log query returns, the
\* construction completes and yields one record per entry, an entry that
\* cannot be decoded becoming a degraded record with is_parsed = false.
C13_BadEntryNeverAborts ==
    Issued("log") # <<>> =>
        /\ built.status = "CommitRange"
        /\ Len(built.commits) = Len(env.entries)
        /\ \A i \in DOMAIN env.entries :
              /\ built.commits[i].status = "Commit"
              /\ built.commits[i].is_parsed = (decode_error(env.entries[i]) = "")
              /\ decode_error(env.entries[i]) # "" =>
                    /\ DOMAIN built.commits[i].schema_data.parsed = {str_sha}
                    /\ Len(built.commits[i].schema_data.errors) = 1

C13_Witness ==
    /\ built.status = "CommitRange"
    /\ Len(env.entries) = 3
    /\ env.entries[2].yaml = "malformed"
    /\ built.commits[1].is_parsed
    /\ ~built.commits[2].is_parsed
    /\ built.commits[3].is_parsed

\* The git version is lower than 2.22.0, compared as versions.
VersionTooLow ==
    VersionLess(version_parse(env.git_version, 0), <<2, 22, 0>>)

\* The pull request lookup is needed and fails.
LookupFails == env.range = GITHUB_PR /\ (~env.api_ok \/ env.prs # 1)

C20_OneFetchOneLogOneRecordPerEntry ==
    built.status = "CommitRange" =>
        /\ SelectSeq(calls, LAMBDA call : call.cmd \in {"fetch", "log"})
              = <<FetchCall, LogCall(IF env.range = GITHUB_PR
                                     THEN <<111, 114, 105, 103, 105, 110, 47, 109>> \o <<46, 46>>
                                     ELSE env.range)>>
        /\ Len(built.commits) = Len(env.entries)
        /\ \A i \in DOMAIN env.entries : built.commits[i] = Commit(env.entries[i])

C20_Witness ==
    /\ built.status = "CommitRange"
    /\ env.range = GITHUB_PR
    /\ calls = <<PullsCall, FetchCall, LogCall(<<111, 114, 105, 103, 105, 110, 47, 109>> \o <<46, 46>>)>>
    /\ Len(built.commits) = 3
    /\ env.entries[1] = env.entries[2]
    /\ env.entries[3].yaml = "malformed"
    /\ built.commits[1].is_parsed /\ built.commits[2].is_parsed
    /\ ~built.commits[3].is_parsed

(* ------------------------------------------------------------------ *)
(* Properties of group called with both sort flags                      *)
(* ------------------------------------------------------------------ *)

\* C27: when group is called with both ascending_keys and descending_keys,
\* descending takes precedence: the non-null keys are returned in decreasing
\* order, and the keys, the null key included, are those of the same call
\* with descending_keys alone.
C27_DescendingTakesPrecedence ==
    (Grouped /\ last.ascending_keys /\ last.descending_keys) =>
        /\ Decreasing(NonNullKeys(result.keys))
        /\ result.keys = group_keys(Receiver, objs, last.attr, FALSE, TRUE,
                                    last.none_key_first, last.none_key_last)

C27_Witness ==
    /\ Grouped
    /\ last.ascending_keys /\ last.descending_keys
    /\ ~last.none_key_first /\ ~last.none_key_last
    /\ Len(result.keys) = 3
    /\ result.keys[3] = PyNone
    /\ PyLess(result.keys[2], result.keys[1])

(* ------------------------------------------------------------------ *)
(* Properties of the Tag objects of the records of a range              *)
(* ------------------------------------------------------------------ *)

\* The records c and d have resolved their tags, to the same tag name.
SameTagName(c, d) ==
    /\ objs[c].has_tag /\ objs[d].has_tag
    /\ objs[c]._tag.kind = "tag"
    /\ objs[c]._tag = objs[d]._tag

\* C28, as claimed: the records of a range that resolve to the same tag
\* name hold the same Tag object, so the date memoized through one of them
\* is the date memo of the others.
C28_TagSharedAsClaimed ==
    \A c, d \in Range(lists[0]) : SameTagName(c, d) => dates[c] = dates[d]

\* C28, amended: every record holds a Tag object of its own. A date is
\* memoized on a record only by a date query issued through that record,
\* and a step changes the date memo of at most one record, whatever the
\* tag names of the others.
C28_TagObjectPerRecord ==
    /\ [](\A c \in CommitIds : dates[c].has_date => dates[c].queries >= 1)
    /\ [][\A c, d \in CommitIds :
            (c # d /\ dates'[c] # dates[c]) => dates'[d] = dates[d]]_vars

C28_Witness ==
    \E c, d \in Range(lists[0]) :
        /\ c # d
        /\ SameTagName(c, d)
        /\ dates[c].has_date /\ dates[c].queries = 1
        /\ dates[d].has_date /\ dates[d].queries = 1

(* ------------------------------------------------------------------ *)
(* Properties of the fixed metadata of a record                         *)
(* ------------------------------------------------------------------ *)

\* The fixed metadata keys the entries of the model have.
FixedFields == {str_sha, str_summary}

\* C29: for every successfully parsed record the fixed metadata fields are
\* the (formatted) values of the top-level keys of the raw entry, whatever
\* trailers the commit carries: a trailer whose normalized key is sha or
\* summary does not change the sha or the summary of the record.
C29_FixedFieldsFromTopLevel ==
    Decoded =>
        \A k \in FixedFields :
            /\ k \in DOMAIN commit.schema_data.parsed
            /\ commit.schema_data.parsed[k] = _format_commit_attr(k, msg.data[k])

(* ------------------------------------------------------------------ *)
(* commit: the checks, the prompt, the message, git commit              *)
(* ------------------------------------------------------------------ *)

\* What schema.prompt returns is a dict in the order of the schema: here a
\* sequence of its items, each a key and a value.
Item(key, value) == [key |-> key, value |-> value]
HasKey(entry, key) == \E i \in DOMAIN entry : entry[i].key = key
ValueOf(entry, key) == entry[CHOOSE i \in DOMAIN entry : entry[i].key = key].value

\* The entries the prompt returns: the summary "s", which is required, and
\* each other field left out or given, the description "d", the type "x",
\* the jira_id "y" or empty; and the empty entry of a prompt that asked
\* for nothing.
Optional(key, values) == {<<>>} \cup {<<Item(key, v)>> : v \in values}
PromptEntries ==
    {<<>>}
    \cup {<<Item(str_summary, <<115>>)>> \o d \o t \o j :
              d \in Optional(str_description, {<<100>>}),
              t \in Optional(str_type, {<<120>>}),
              j \in Optional(str_jira_id, {<<121>>, <<>>})}

\* What schema.prompt does: it returns an entry, or it raises (an error of
\* the prompt, the user's interrupt).
PromptRaises == {"Exception", "KeyboardInterrupt"}
PromptOutcome(error, entry) == [raises |-> error, entry |-> entry]
PromptOutcomes ==
    {PromptOutcome("", entry) : entry \in PromptEntries}
    \cup {PromptOutcome(error, <<>>) : error \in PromptRaises}

\* str.upper() on one character, str.title()
Letters == (65..90) \cup (97..122)
title(s) ==
    [i \in DOMAIN s |->
        IF i = 1 \/ s[i - 1] \notin Letters
        THEN (IF s[i] \in 97..122 THEN s[i] - 32 ELSE s[i])
        ELSE (IF s[i] \in Upper THEN s[i] + 32 ELSE s[i])]

\* key.replace('_', ' ').title().replace('_', '-').strip()
trailer_key(key) == strip(StrReplace(title(StrReplace(key, 95, 32)), 95, 45))

\* The loop over entry.items(): f'{key}: {value.strip()}\n' for every key
\* other than summary and description.
RECURSIVE trailer_lines(_)
trailer_lines(entry) ==
    IF entry = <<>> THEN <<>>
    ELSE (IF Head(entry).key \in {str_summary, str_description} THEN <<>>
          ELSE trailer_key(Head(entry).key) \o <<58, 32>>
               \o strip(Head(entry).value) \o <<10>>)
         \o trailer_lines(Tail(entry))

\* The commit message rendered from the entry.
commit_msg(entry) ==
    strip((IF HasKey(entry, str_summary)
           THEN strip(ValueOf(entry, str_summary)) \o <<10, 10>> ELSE <<>>)
          \o (IF HasKey(entry, str_description)
              THEN strip(ValueOf(entry, str_description)) \o <<10, 10>> ELSE <<>>)
          \o trailer_lines(entry))

\* The elements of a sequence whose index is in keep, from index i on.
RECURSIVE PickFrom(_, _, _)
PickFrom(seq, keep, i) ==
    IF i > Len(seq) THEN <<>>
    ELSE (IF i \in keep THEN <<seq[i]>> ELSE <<>>) \o PickFrom(seq, keep, i + 1)

\* sep.join(parts)
RECURSIVE JoinWith(_, _)
JoinWith(parts, sep) ==
    IF parts = <<>> THEN <<>>
    ELSE IF Len(parts) = 1 THEN Head(parts)
    ELSE Head(parts) \o sep \o JoinWith(Tail(parts), sep)

\* The message git commit -F stores, as its lines: the trailing whitespace
\* of every line is removed, and so are the empty lines at the start and at
\* the end and every empty line that follows an empty line.
stored_message(text) ==
    LET ls == [i \in DOMAIN Lines(text) |-> rstrip(Lines(text)[i])]
        keep == {i \in DOMAIN ls :
                    \/ ls[i] # <<>>
                    \/ /\ i > 1 /\ ls[i - 1] # <<>>
                       /\ \E j \in DOMAIN ls : j > i /\ ls[j] # <<>>}
    IN  PickFrom(ls, keep, 1)

\* The index of the first and of the last empty line of a stored message
\* (one more than its length, and 0, when it has none).
FirstBlank(ls) ==
    IF \E i \in DOMAIN ls : ls[i] = <<>>
    THEN CHOOSE i \in DOMAIN ls : ls[i] = <<>> /\ \A j \in 1..(i - 1) : ls[j] # <<>>
    ELSE Len(ls) + 1
LastBlank(ls) ==
    IF \E i \in DOMAIN ls : ls[i] = <<>>
    THEN CHOOSE i \in DOMAIN ls : ls[i] = <<>> /\ \A j \in (i + 1)..Len(ls) : ls[j] # <<>>
    ELSE 0

\* A trailer line for git: a token of letters, digits and hyphens, then a
\* colon; its token and its value.
TokenChars == (48..57) \cup Letters \cup {45}
Colon(line) == CHOOSE k \in DOMAIN line : line[k] = 58 /\ \A j \in 1..(k - 1) : line[j] # 58
is_trailer_line(line) ==
    /\ \E k \in DOMAIN line : line[k] = 58
    /\ Colon(line) > 1
    /\ \A j \in 1..(Colon(line) - 1) : line[j] \in TokenChars
trailer_of(line) ==
    [key |-> SubSeq(line, 1, Colon(line) - 1),
     value |-> PyStr(strip(SubSeq(line, Colon(line) + 1, Len(line))))]

\* %(trailers): the lines of the last paragraph of the message when it is
\* not the title and all its lines are trailer lines, none otherwise.
git_trailers(ls) ==
    LET last_paragraph == SubSeq(ls, LastBlank(ls) + 1, Len(ls))
    IN  IF LastBlank(ls) > 0 /\ \A i \in DOMAIN last_paragraph : is_trailer_line(last_paragraph[i])
        THEN [i \in DOMAIN last_paragraph |-> trailer_of(last_paragraph[i])]
        ELSE <<>>

\* What yaml.safe_load makes of the entry after the trailers were quoted:
\* the substitution quotes a trailer whose key matches \w+ and leaves the
\* others with their asterisks, which is not YAML.
yaml_of(trailers) ==
    IF \A i \in DOMAIN trailers : \A j \in DOMAIN trailers[i].key : trailers[i].key[j] \in Word
    THEN "mapping" ELSE "malformed"

\* The entry of the log for a commit with the stored message ls: %s is the
\* title (the lines of the first paragraph, joined), %b the rest of the
\* message, both rendered as block scalars.
git_log_entry(ls) ==
    LET subject == JoinWith(SubSeq(ls, 1, FirstBlank(ls) - 1), <<32>>)
        body == JoinWith(SubSeq(ls, FirstBlank(ls) + 1, Len(ls)), <<10>>)
        trailers == git_trailers(ls)
    IN  RawEntry(sha_line, yaml_of(trailers),
                 (str_sha :> PyStr(<<49, 102>>))
                 @@ (str_summary :> PyStr(subject \o <<10>>))
                 @@ (str_description :> PyStr(body \o <<10>>))
                 @@ (str_trailers :> trailers),
                 FALSE)

\* git commit: it fails when the message is empty, or when nothing is staged
\* and empty commits are not allowed; else the commit is the new head and
\* the index is clean.
git_commit(r, text, allow_empty) ==
    IF stored_message(text) = <<>> \/ (~r.staged /\ ~allow_empty)
    THEN [returncode |-> 1, repo |-> r]
    ELSE [returncode |-> 0,
          repo |-> [r EXCEPT !.log = <<git_log_entry(stored_message(text))>> \o r.log,
                             !.changed = r.changed \/ r.staged,
                             !.staged = FALSE]]

\* The pre-commit hook of the repository: none, one that exits with 0, one
\* that exits with 1.
Hooks == {"none", "pass", "fail"}

\* A commit that never runs the pre-commit hook.
pre_commit_runs_never(no_verify, hook) == FALSE

\* `not no_verify and os.path.exists(pre_commit_hook)`
pre_commit_runs(no_verify, hook) == ~no_verify /\ hook # "none"

\* What a call of commit did: the repository after it, the steps it took,
\* what it raised or the return code of the result it returned, whether it
\* prompted, with which defaults, and the entry the prompt returned.
Outcome(r, steps, error, returncode, defaults, entry) ==
    [repo |-> r, steps |-> steps, raised |-> error, returncode |-> returncode,
     defaults |-> defaults, entry |-> entry]

\* commit(no_verify, allow_empty, defaults) on the repository r, with the
\* hook of the repository and what the prompt does when it is reached.
commit_cmd(r, no_verify, allow_empty, defaults, hook, prompt) ==
    LET hooked == IF pre_commit_runs(no_verify, hook) THEN <<"pre-commit">> ELSE <<>>
        committed == git_commit(r, commit_msg(prompt.entry), allow_empty)
    IN  IF pre_commit_runs(no_verify, hook) /\ hook = "fail"
        THEN Outcome(r, hooked, "", 1, <<>>, <<>>)
        ELSE IF ~r.staged /\ ~allow_empty
        THEN Outcome(r, hooked \o <<"diff", "git commit">>, "",
                     git_commit(r, <<>>, allow_empty).returncode, <<>>, <<>>)
        ELSE IF prompt.raises # ""
        THEN Outcome(r, hooked \o <<"diff", "prompt">>, prompt.raises, 0, defaults, <<>>)
        ELSE Outcome(committed.repo, hooked \o <<"diff", "prompt", "git commit">>, "",
                     committed.returncode, defaults, prompt.entry)

\* A repository with nothing committed on the branch; changes may be staged.
CommitInit ==
    /\ lists = [l \in ListIds |-> <<>>]
    /\ objs = [c \in CommitIds |-> [has_tag |-> FALSE, _tag |-> PyNone, queries |-> 0]]
    /\ result = NoResult
    /\ last = NoCall
    /\ SchemaIdle /\ DatesIdle /\ ParseIdle /\ FormatIdle /\ RangeIdle
    /\ GithubIdle
    /\ \E staged \in BOOLEAN : repo = [NoRepo EXCEPT !.staged = staged]
    /\ run = NoRun

\* core.commit(no_verify, allow_empty)
CommitCall ==
    /\ run.cmd = "none"
    /\ \E no_verify \in BOOLEAN, allow_empty \in BOOLEAN, hook \in Hooks,
          prompt \in PromptOutcomes :
          LET done == commit_cmd(repo, no_verify, allow_empty, <<>>, hook, prompt)
          IN  /\ repo' = done.repo
              /\ run' = [NoRun EXCEPT !.cmd = "commit", !.no_verify = no_verify,
                                      !.allow_empty = allow_empty, !.hook = hook,
                                      !.steps = done.steps, !.raised = done.raised,
                                      !.returncode = done.returncode,
                                      !.entry = done.entry, !.before = repo]
    /\ UNCHANGED <<query_vars, schema_vars, dates, parse_vars, format_vars,
                   range_vars, github_vars>>

\* CommitRange('HEAD~1..')[0] after a commit was made, and getattr(commit,
\* key) for every key of the entry the prompt returned.
ReadBack ==
    /\ run.cmd = "commit"
    /\ run.raised = "" /\ run.returncode = 0
    /\ LET record == Commit(_git_log_as_yaml(<<repo.log[1]>>)[1])
       IN  run' = [run EXCEPT !.cmd = "read", !.commits = <<record>>,
                       !.got = [i \in DOMAIN run.entry |->
                                   Item(run.entry[i].key,
                                        getattribute_of(record, repo.log[1],
                                                        run.entry[i].key, PyNone))]]
    /\ UNCHANGED repo
    /\ UNCHANGED <<query_vars, schema_vars, dates, parse_vars, format_vars,
                   range_vars, github_vars>>

CommitNext == CommitCall \/ ReadBack

CommitSpec == CommitInit /\ [][CommitNext]_vars

(* ------------------------------------------------------------------ *)
(* lint and squash on the commits of a branch                           *)
(* ------------------------------------------------------------------ *)

\* Most commits on the branch since the common ancestor with ref.
MaxCommits == 2

\* The commits of the branch, as the entries of the log: a valid one with
\* the trailer "Type: x", a valid one with the summary "t" and the same
\* trailer, one whose type "y" is not a choice, one that is not YAML.
TypeTrailer(value) == <<[key |-> <<84, 121, 112, 101>>, value |-> PyStr(value)]>>
WorkEntries ==
    {RawEntry(sha_line, "mapping", (str_trailers :> TypeTrailer(<<120>>)) @@ TopLevel, FALSE),
     RawEntry(sha_line, "mapping",
              (str_trailers :> TypeTrailer(<<120>>)) @@ (str_summary :> PyStr(<<116>>))
              @@ TopLevel, FALSE),
     RawEntry(sha_line, "mapping", (str_trailers :> TypeTrailer(<<121>>)) @@ TopLevel, FALSE),
     RawEntry(sha_line, "malformed", EmptyDict, FALSE)}

\* The range of the repository's test: six commits, newest first, of which
\* the newest is not YAML and the second has a value that is not allowed.
SixCommits ==
    LET valid(summary) == RawEntry(sha_line, "mapping",
                              (str_trailers :> TypeTrailer(<<120>>))
                              @@ (str_summary :> PyStr(summary)) @@ TopLevel, FALSE)
    IN  <<RawEntry(sha_line, "malformed", EmptyDict, FALSE),
          RawEntry(sha_line, "mapping", (str_trailers :> TypeTrailer(<<121>>)) @@ TopLevel, FALSE),
          valid(<<116>>), valid(<<32, 115>>), valid(<<116>>), valid(<<32, 115>>)>>

\* CommitRange(range)._commits for the log of the branch: one Commit per
\* message.
range_commits(log) ==
    [i \in DOMAIN _git_log_as_yaml(log) |-> Commit(_git_log_as_yaml(log)[i])]

\* commits.filter('is_valid', value)
filter_is_valid(commits, value) == SelectSeq(commits, LAMBDA c : is_valid(c) = value)

\* A lint that passes only when no commit is invalid, whatever `any` is.
lint_result_ignores_any(commits, any) == filter_is_valid(commits, FALSE) = <<>>

\* The result of lint: `not commits.filter('is_valid', False)` when any is
\* false, `bool(commits.filter('is_valid', True))` when it is true.
lint_result(commits, any) ==
    IF ~any THEN filter_is_valid(commits, FALSE) = <<>>
    ELSE filter_is_valid(commits, TRUE) # <<>>

\* `if not commits` without its test: squash goes on with an empty range.
no_commits_never(commits) == FALSE

\* `if not commits`: the range has no commit.
no_commits(commits) == commits = <<>>

\* Defaults taken from the first valid commit of the range.
squash_defaults_first_valid(commits) ==
    LET valid_commits == filter_is_valid(commits, TRUE)
    IN  IF valid_commits # <<>> THEN valid_commits[1].schema_data ELSE <<>>

\* The defaults of the squashed commit: the schema_data of the last valid
\* commit of the range, {} when none is valid.
squash_defaults(commits) ==
    LET valid_commits == filter_is_valid(commits, TRUE)
    IN  IF valid_commits # <<>> THEN valid_commits[Len(valid_commits)].schema_data
        ELSE <<>>

\* git reset --soft <common ancestor>: the head is the common ancestor, the
\* index keeps the tree of the old head, ORIG_HEAD is the old head.
reset_soft(r) ==
    [log |-> <<>>, changed |-> FALSE, staged |-> r.staged \/ r.changed,
     orig |-> [set |-> TRUE, log |-> r.log, changed |-> r.changed]]

\* A rollback that does nothing.
reset_orig_head_skipped(r) == r

\* git reset ORIG_HEAD: the head is ORIG_HEAD again and the index is reset
\* to its tree.
reset_orig_head(r) ==
    [log |-> r.orig.log, changed |-> r.orig.changed, staged |-> FALSE,
     orig |-> [set |-> TRUE, log |-> r.log, changed |-> r.changed]]

\* The refs squash is called with: 'a' and ':github/pr'.
SquashRefs == {<<97>>, GITHUB_PR}

\* What the prompt does in a squash: it raises, or returns the empty entry
\* or the summary "s" with the type "x".
SquashPrompts ==
    {PromptOutcome(error, <<>>) : error \in PromptRaises}
    \cup {PromptOutcome("", <<>>),
          PromptOutcome("", <<Item(str_summary, <<115>>), Item(str_type, <<120>>)>>)}

\* squash(ref, no_verify, allow_empty) on the repository r whose range
\* `ref..` gives the commits, when the branch has prs pull requests, the
\* fetch succeeds or not, with the hook of the repository and what the
\* prompt does when it is reached.
squash_cmd(r, commits, ref, no_verify, allow_empty, prs, fetch_ok, hook, prompt) ==
    LET base == IF ref = GITHUB_PR THEN get_pull_request_base(TRUE, prs)
                ELSE [raises |-> "", base |-> ref]
        looked_up == IF ref = GITHUB_PR THEN <<"pulls">> ELSE <<>>
        done == commit_cmd(reset_soft(r), no_verify, allow_empty,
                           squash_defaults(commits), hook, prompt)
        steps == looked_up \o <<"fetch", "log", "merge-base", "reset --soft">> \o done.steps
    IN  IF base.raises # "" THEN Outcome(r, looked_up, base.raises, 0, <<>>, <<>>)
        ELSE IF ~fetch_ok
        THEN Outcome(r, looked_up \o <<"fetch">>, "CalledProcessError", 0, <<>>, <<>>)
        ELSE IF no_commits(commits)
        THEN Outcome(r, looked_up \o <<"fetch", "log">>, "NoSquashableCommitsError",
                     0, <<>>, <<>>)
        ELSE IF done.raised # "" \/ done.returncode # 0
        THEN Outcome(reset_orig_head(done.repo), steps \o <<"reset ORIG_HEAD">>,
                     done.raised, done.returncode, done.defaults, done.entry)
        ELSE Outcome(done.repo, steps, "", 0, done.defaults, done.entry)

\* A branch with some commits since the common ancestor with ref; changes
\* may be staged.
CommandInit ==
    /\ lists = [l \in ListIds |-> <<>>]
    /\ objs = [c \in CommitIds |-> [has_tag |-> FALSE, _tag |-> PyNone, queries |-> 0]]
    /\ result = NoResult
    /\ last = NoCall
    /\ SchemaIdle /\ DatesIdle /\ ParseIdle /\ FormatIdle /\ RangeIdle
    /\ GithubIdle
    /\ \E log \in UNION {[1..n -> WorkEntries] : n \in 0..MaxCommits} \cup {SixCommits},
          changed \in BOOLEAN, staged \in BOOLEAN :
          /\ log = <<>> => ~changed
          /\ repo = [NoRepo EXCEPT !.log = log, !.changed = changed, !.staged = staged]
    /\ run = NoRun

\* core.lint(range, any) for the range of the branch.
Lint ==
    /\ run.cmd = "none"
    /\ \E commits \in {range_commits(repo.log)} :
           \E any \in BOOLEAN, fetch_ok \in BOOLEAN :
              run' = IF ~fetch_ok
                     THEN [NoRun EXCEPT !.cmd = "lint", !.any = any, !.steps = <<"fetch">>,
                                        !.raised = "CalledProcessError", !.before = repo]
                     ELSE [NoRun EXCEPT !.cmd = "lint", !.any = any,
                                        !.steps = <<"fetch", "log">>,
                                        !.passed = lint_result(commits, any),
                                        !.commits = commits, !.before = repo]
    /\ UNCHANGED repo
    /\ UNCHANGED <<query_vars, schema_vars, dates, parse_vars, format_vars,
                   range_vars, github_vars>>

\* core.squash(ref, no_verify, allow_empty)
Squash ==
    /\ run.cmd = "none"
    /\ \E commits \in {range_commits(repo.log)} :
           \E ref \in SquashRefs, prs \in 0..2, fetch_ok \in BOOLEAN,
              no_verify \in BOOLEAN, allow_empty \in BOOLEAN, hook \in Hooks,
              prompt \in SquashPrompts :
              /\ ref # GITHUB_PR => prs = 1
              /\ LET done == squash_cmd(repo, commits, ref, no_verify, allow_empty,
                                        prs, fetch_ok, hook, prompt)
                     logged == \E i \in DOMAIN done.steps : done.steps[i] = "log"
                 IN  /\ repo' = done.repo
                     /\ run' = [NoRun EXCEPT !.cmd = "squash", !.no_verify = no_verify,
                                     !.allow_empty = allow_empty, !.hook = hook,
                                     !.steps = done.steps, !.raised = done.raised,
                                     !.returncode = done.returncode,
                                     !.commits = IF logged THEN commits ELSE <<>>,
                                     !.defaults = done.defaults,
                                     !.entry = done.entry, !.before = repo]
    /\ UNCHANGED <<query_vars, schema_vars, dates, parse_vars, format_vars,
                   range_vars, github_vars>>

CommandNext == Lint \/ Squash

CommandSpec == CommandInit /\ [][CommandNext]_vars

(* ------------------------------------------------------------------ *)
(* Properties of lint and squash                                        *)
(* ------------------------------------------------------------------ *)

\* The steps a call took: whether it took a step, and whether it took the
\* step a before the step b.
Took(step) == \E i \in DOMAIN run.steps : run.steps[i] = step
TookBefore(a, b) ==
    \E i, j \in DOMAIN run.steps : i < j /\ run.steps[i] = a /\ run.steps[j] = b

\* lint returned; squash returned or raised.
LintDone == run.cmd = "lint" /\ run.raised = ""
SquashDone == run.cmd = "squash"

\* The records of the range that are valid.
ValidRecords == {i \in DOMAIN run.commits : is_valid(run.commits[i])}

\* C21: for every commit range, the empty range included, lint(any=False)
\* passes if and only if no record of the range is invalid, lint(any=True)
\* if and only if at least one record is valid; in both modes the returned
\* collection is the whole range. For the six commits of which two are
\* invalid, any=False fails, any=True passes and six records are returned.
C21_LintPassesIffValid ==
    LintDone =>
        /\ run.commits = range_commits(run.before.log)
        /\ Len(run.commits) = Len(run.before.log)
        /\ ~run.any => (run.passed <=> ValidRecords = DOMAIN run.commits)
        /\ run.any => (run.passed <=> ValidRecords # {})
        /\ run.before.log = SixCommits =>
              /\ run.passed = run.any
              /\ Len(run.commits) = 6
              /\ Cardinality(DOMAIN run.commits \ ValidRecords) = 2

C21_Witness ==
    /\ LintDone
    /\ run.before.log = SixCommits
    /\ run.any /\ run.passed
    /\ Len(run.commits) = 6

\* C22: squash(ref) with no commit in the range `ref..` raises
\* NoSquashableCommitsError as soon as it has read the range, before any
\* reset, hook, prompt or commit is executed: the head and the index are
\* left unchanged.
C22_NothingToSquashRaisesFirst ==
    (SquashDone /\ run.before.log = <<>>) =>
        /\ run.raised # ""
        /\ Took("log") => run.raised = "NoSquashableCommitsError"
        /\ ~Took("reset --soft") /\ ~Took("pre-commit") /\ ~Took("prompt")
        /\ ~Took("git commit") /\ ~Took("reset ORIG_HEAD")
        /\ repo = run.before

C22_Witness ==
    /\ SquashDone
    /\ run.before.log = <<>>
    /\ run.before.staged
    /\ run.raised = "NoSquashableCommitsError"
    /\ run.steps = <<"fetch", "log">>

\* The commit step of the squash failed: it raised or its result has a
\* return code other than zero.
CommitStepFailed == run.raised # "" \/ run.returncode # 0

\* C23: squash is all-or-nothing on the head. After the soft reset to the
\* common ancestor, if the commit step raises (an Exception or a keyboard
\* interrupt) or returns a non-zero return code, squash resets to ORIG_HEAD
\* as its last step, before it re-raises or returns: the head is the
\* pre-squash head and nothing is staged. If the commit step succeeds, the
\* commits since the common ancestor are replaced by exactly one commit,
\* that of the prompted entry, and no rollback is executed.
C23_SquashAllOrNothing ==
    (SquashDone /\ Took("reset --soft")) =>
        /\ CommitStepFailed =>
              /\ run.steps[Len(run.steps)] = "reset ORIG_HEAD"
              /\ repo.log = run.before.log
              /\ repo.changed = run.before.changed
              /\ ~repo.staged
        /\ ~CommitStepFailed =>
              /\ ~Took("reset ORIG_HEAD")
              /\ repo.log = <<git_log_entry(stored_message(commit_msg(run.entry)))>>
              /\ repo.changed = (run.before.changed \/ run.before.staged)
              /\ ~repo.staged

C23_Witness ==
    /\ SquashDone
    /\ run.raised = "KeyboardInterrupt"
    /\ Took("prompt")
    /\ run.steps[Len(run.steps)] = "reset ORIG_HEAD"
    /\ Len(run.before.log) = 2
    /\ repo.log = run.before.log

\* C30: the defaults squash passes to the commit prompt are the field data
\* of the last element, in range order, of the valid records of the range
\* `ref..`, and are empty when the range has no valid record; invalid and
\* unparsed records never supply the defaults.
C30_DefaultsOfLastValid ==
    (SquashDone /\ Took("prompt")) =>
        /\ run.commits = range_commits(run.before.log)
        /\ ValidRecords = {} => run.defaults = <<>>
        /\ ValidRecords # {} =>
              \E i \in ValidRecords :
                  /\ \A j \in ValidRecords : j <= i
                  /\ run.defaults = run.commits[i].schema_data

C30_Witness ==
    /\ SquashDone /\ Took("prompt")
    /\ Len(run.commits) = 2
    /\ ValidRecords = {1, 2}
    /\ run.commits[1].schema_data # run.commits[2].schema_data
    /\ run.defaults = run.commits[2].schema_data

(* ------------------------------------------------------------------ *)
(* Properties of commit                                                 *)
(* ------------------------------------------------------------------ *)

\* The last command was commit (its result may have been read back since).
CommitDone == run.cmd \in {"commit", "read"}

\* The repository has a pre-commit hook and the call does not skip it.
HookApplies == run.hook # "none" /\ ~run.no_verify

\* C24: in commit the user is prompted only after the checks have passed.
\* Whenever the prompt is invoked, the pre-commit hook, when one exists and
\* no_verify is false, has already run and returned zero, and the staged
\* changes have been looked at and there are some or allow_empty is true.
\* When the hook returns non-zero, commit returns the hook's result without
\* prompting and without running git commit; when the hook does not stop
\* the call, nothing is staged and allow_empty is false, it returns the
\* result of a failing git commit without prompting. In both cases the
\* repository is left as it was.
C24_PromptAfterChecks ==
    CommitDone =>
        /\ Took("prompt") =>
              /\ HookApplies => (TookBefore("pre-commit", "prompt") /\ run.hook = "pass")
              /\ TookBefore("diff", "prompt")
              /\ run.before.staged \/ run.allow_empty
        /\ (HookApplies /\ run.hook = "fail") =>
              /\ run.steps = <<"pre-commit">>
              /\ run.raised = "" /\ run.returncode # 0
              /\ repo = run.before
        /\ (~(HookApplies /\ run.hook = "fail") /\ ~run.before.staged /\ ~run.allow_empty) =>
              /\ ~Took("prompt")
              /\ run.steps[Len(run.steps)] = "git commit"
              /\ run.raised = "" /\ run.returncode # 0
              /\ repo = run.before

C24_Witness ==
    /\ run.cmd = "commit"
    /\ HookApplies
    /\ run.before.staged /\ ~run.allow_empty
    /\ run.steps = <<"pre-commit", "diff", "prompt", "git commit">>
    /\ run.returncode = 0
    /\ Len(repo.log) = 1

\* The commit made by the last commit call was read back.
ReadBackDone == run.cmd = "read"

\* C25: write/read round trip. For every entry returned by the prompt, the
\* commit created by commit() and read back as the first record of the
\* range is parsed, reading each supplied label on the record returns the
\* supplied value, and the trailer key written for a label is mapped back
\* to the label by the key normalization of the parser.
C25_RoundTrip ==
    ReadBackDone =>
        /\ run.commits[1].is_parsed
        /\ \A i \in DOMAIN run.entry :
              /\ run.got[i].value = PyStr(run.entry[i].value)
              /\ run.entry[i].key \notin {str_summary, str_description} =>
                    Hoisted(trailer_key(run.entry[i].key)) = run.entry[i].key


(* ------------------------------------------------------------------ *)
(* github.comment: the log as a comment of the pull request             *)
(* ------------------------------------------------------------------ *)

\* The calls of comment and the comments of the pull request in a behaviour.
MaxCalls == 3
MaxComments == 4

\* GITHUB_USERNAME when it is set, and the login of another user.
Username == <<117>>
OtherLogin == <<118>>

\* The messages comment is called with.
Messages == {<<97>>, <<98>>}

\* A comment of the pull request as the API lists it.
PrComment(id, login, body) == [id |-> id, login |-> login, body |-> body]

\* The id the API gives a new comment: greater than every id in use.
NextId(cs) ==
    IF cs = <<>> THEN 1
    ELSE 1 + CHOOSE n \in {cs[i].id : i \in DOMAIN cs} :
                 \A i \in DOMAIN cs : cs[i].id <= n

\* A lookup that never finds a comment.
pr_comment_id_never(pr_comments, github_username) == 0

\* The loop over pr_comments: the id of the last comment whose user.login
\* is github_username; 0 stands for the None the loop starts with, false
\* as well in `if pr_comment_id:`.
pr_comment_id(pr_comments, github_username) ==
    LET own == {i \in DOMAIN pr_comments : pr_comments[i].login = github_username}
    IN  IF own = {} THEN 0
        ELSE pr_comments[CHOOSE i \in own : \A j \in own : j <= i].id

\* PATCH /repos/{org}/{repo}/issues/comments/{id} with the body.
patch(cs, id, body) ==
    [i \in DOMAIN cs |-> IF cs[i].id = id THEN [cs[i] EXCEPT !.body = body] ELSE cs[i]]

\* POST /repos/{org}/{repo}/issues/{number}/comments with the body, as the
\* authenticated user.
post(cs, login, body) == Append(cs, PrComment(NextId(cs), login, body))

\* comment(message) on the pull request whose comments are cs, when the
\* branch has prs pull requests, GITHUB_USERNAME is github_username ('' when
\* unset), and the listing and the write succeed or not: the comments
\* after the call, the error raised and the writes requested.
comment(cs, message, github_username, prs, get_ok, write_ok) ==
    LET pr == get_pull_request_base(TRUE, prs)
        id == pr_comment_id(cs, github_username)
        request == IF id # 0 THEN [method |-> "PATCH", id |-> id, body |-> message]
                   ELSE [method |-> "POST", id |-> 0, body |-> message]
        written == IF id # 0 THEN patch(cs, id, message)
                   ELSE post(cs, github_username, message)
    IN  IF pr.raises # "" THEN [comments |-> cs, raised |-> pr.raises, requests |-> <<>>]
        ELSE IF github_username = <<>>
        THEN [comments |-> cs, raised |-> "GithubConfigurationError", requests |-> <<>>]
        ELSE IF ~get_ok THEN [comments |-> cs, raised |-> "HTTPError", requests |-> <<>>]
        ELSE IF ~write_ok
        THEN [comments |-> cs, raised |-> "HTTPError", requests |-> <<request>>]
        ELSE [comments |-> written, raised |-> "", requests |-> <<request>>]

\* A pull request with some comments of another user and none of the
\* configured user.
CommentInit ==
    /\ lists = [l \in ListIds |-> <<>>]
    /\ objs = [c \in CommitIds |-> [has_tag |-> FALSE, _tag |-> PyNone, queries |-> 0]]
    /\ result = NoResult
    /\ last = NoCall
    /\ SchemaIdle /\ DatesIdle /\ ParseIdle /\ FormatIdle /\ RangeIdle
    /\ WorkIdle
    /\ \E n \in 0..2 : comments = [i \in 1..n |-> PrComment(i, OtherLogin, <<111>>)]
    /\ posted = NoPost

\* _output(value, ':github/pr'): github.comment(message)
Comment ==
    /\ posted.returned < MaxCalls
    /\ \E message \in Messages, github_username \in {<<>>, Username}, prs \in 0..2,
          get_ok \in BOOLEAN, write_ok \in BOOLEAN :
          LET done == comment(comments, message, github_username, prs, get_ok, write_ok)
          IN  /\ comments' = done.comments
              /\ posted' = [status |-> IF done.raised = "" THEN "ok" ELSE done.raised,
                            message |-> message,
                            requests |-> done.requests,
                            before |-> comments,
                            returned |-> IF done.raised = "" THEN posted.returned + 1
                                         ELSE posted.returned,
                            latest |-> IF done.raised = "" THEN message ELSE posted.latest]
    /\ UNCHANGED <<query_vars, schema_vars, dates, parse_vars, format_vars,
                   range_vars, work_vars>>

\* Another user comments on the pull request.
OtherComment ==
    /\ Len(comments) < MaxComments
    /\ comments' = post(comments, OtherLogin, <<111>>)
    /\ UNCHANGED posted
    /\ UNCHANGED <<query_vars, schema_vars, dates, parse_vars, format_vars,
                   range_vars, work_vars>>

CommentNext == Comment \/ OtherComment

CommentSpec == CommentInit /\ [][CommentNext]_vars

(* ------------------------------------------------------------------ *)
(* Properties of github.comment                                         *)
(* ------------------------------------------------------------------ *)

\* The comments of the configured user, among cs.
Own(cs) == {i \in DOMAIN cs : cs[i].login = Username}

\* C26: each comment(message) call that returns performed exactly one
\* write: a patch of the existing comment of the configured user when one
\* existed, a post of a new comment otherwise. On a pull request that
\* starts with no comment of that user, the user has no comment before the
\* first call returns and exactly one after, however many calls follow,
\* and its body is the message of the latest call that returned.
C26_CommentEditsNotDuplicates ==
    /\ posted.status = "ok" =>
          /\ Len(posted.requests) = 1
          /\ posted.requests[1].body = posted.message
          /\ IF Own(posted.before) # {}
             THEN /\ posted.requests[1].method = "PATCH"
                  /\ \E i \in Own(posted.before) :
                         posted.before[i].id = posted.requests[1].id
             ELSE posted.requests[1].method = "POST"
    /\ posted.returned = 0 => Own(comments) = {}
    /\ posted.returned > 0 =>
          /\ Cardinality(Own(comments)) = 1
          /\ \A i \in Own(comments) : comments[i].body = posted.latest

C26_Witness ==
    /\ posted.status = "ok"
    /\ posted.returned = 2
    /\ posted.requests[1].method = "PATCH"
    /\ Cardinality(Own(comments)) = 1
    /\ \E i \in Own(comments) :
           /\ i < Len(comments)
           /\ comments[i].body = posted.message
           /\ posted.before[i].body # posted.message

====
